---- MODULE Spec2Model ----
(***************************************************************************)
(* klonch: the list controller (internal/ui/views/list.go, the second,     *)
(* current revision held in src/unnamed/part_006 from line 2985 on), the   *)
(* task store it reads and writes (internal/db), and the asynchronous      *)
(* commands that connect the two.                                          *)
(*                                                                         *)
(* Conventions.  Go strings that the code searches, trims or splits are    *)
(* sequences of one-character strings; ids are naturals with 0 for "" and  *)
(* for a nil pointer; times are naturals with 0 for a nil *time.Time.       *)
(* Go indexes from 0, TLA+ sequences from 1: tasks[cursor] in the code is  *)
(* tasks[cursor + 1] here.                                                 *)
(*                                                                         *)
(* A command returned by Update is a goroutine: it is queued in cmds and   *)
(* runs later, as one step, except loadTasks, whose statements are steps   *)
(* of their own (ld) against the single connection of the pool (conn).    *)
(* The message it returns is queued in msgs and handled by Deliver.        *)
(* Each specification gives the user the keys its claims are about; a      *)
(* user who is Quiet presses a key only when nothing is in flight.         *)
(***************************************************************************)
EXTENDS Integers, Sequences, FiniteSets, TLC

\* ------------------------------------------------------------------ bounds

\* Tasks the controller may create during a run (uuid.New() ids).
MaxNew == 1

\* Commands (goroutines started by the runtime) that may be in flight at once.
MaxInflight == 2

\* Characters the text input accepts before further typing is ignored
\* (the code's CharLimit is 256).
MaxInput == 1

\* Store statements that may fail during a run.
MaxFaults == 1

\* Records the undo stack may hold before the keys that record are held back
\* (the code's own limit is UndoLimit).
MaxUndo == 2

\* ---------------------------------------------------------------- constants

NoId == 0
NoTime == 0
\* position is NULL for every task the controller inserts; NULL sorts first.
NoPos == -1

\* applyFilter: sevenDaysAgo := now.AddDate(0, 0, -7)
RecentDays == 7

\* pushUndo: the undo stack holds at most 50 records.
UndoLimit == 50

\* The run starts at this time; a completion time of OldTime lies more than
\* RecentDays before any time the run reaches, RecentTime within them.
StartTime == 20
OldTime == 1
RecentTime == StartTime - 1

Max2(a, b) == IF a > b THEN a ELSE b

\* ------------------------------------------------------------------ strings

Lowercase ==
  <<"a", "b", "c", "d", "e", "f", "g", "h", "i", "j", "k", "l", "m",
    "n", "o", "p", "q", "r", "s", "t", "u", "v", "w", "x", "y", "z">>
Uppercase ==
  <<"A", "B", "C", "D", "E", "F", "G", "H", "I", "J", "K", "L", "M",
    "N", "O", "P", "Q", "R", "S", "T", "U", "V", "W", "X", "Y", "Z">>

\* strings.ToLower on one character
Lower(c) ==
  IF \E i \in 1..26 : Uppercase[i] = c
    THEN Lowercase[CHOOSE i \in 1..26 : Uppercase[i] = c]
    ELSE c

ToLower(s) == [i \in DOMAIN s |-> Lower(s[i])]

HasPrefix(s, p) == Len(p) <= Len(s) /\ SubSeq(s, 1, Len(p)) = p

TrimPrefix(s, p) == IF HasPrefix(s, p) THEN SubSeq(s, Len(p) + 1, Len(s)) ELSE s

Contains(s, sub) ==
  \E i \in 0..(Len(s) - Len(sub)) : SubSeq(s, i + 1, i + Len(sub)) = sub

RECURSIVE TrimLeft(_)
TrimLeft(s) == IF s # <<>> /\ Head(s) = " " THEN TrimLeft(Tail(s)) ELSE s

RECURSIVE TrimRight(_)
TrimRight(s) ==
  IF s # <<>> /\ s[Len(s)] = " " THEN TrimRight(SubSeq(s, 1, Len(s) - 1)) ELSE s

TrimSpace(s) == TrimRight(TrimLeft(s))

\* string(task.Status) and string(task.Priority) as the text matchesFilter searches
StatusText(st) ==
  CASE st = "backlog" -> <<"b","a","c","k","l","o","g">>
    [] st = "pending" -> <<"p","e","n","d","i","n","g">>
    [] st = "in_progress" -> <<"i","n","_","p","r","o","g","r","e","s","s">>
    [] st = "done" -> <<"d","o","n","e">>
    [] st = "archived" -> <<"a","r","c","h","i","v","e","d">>

PriorityText(p) ==
  CASE p = "low" -> <<"l","o","w">>
    [] p = "medium" -> <<"m","e","d","i","u","m">>
    [] p = "high" -> <<"h","i","g","h">>
    [] p = "urgent" -> <<"u","r","g","e","n","t">>

\* -------------------------------------------------------- projects and tags

\* The projects table (GetProjects: non-archived, ORDER BY position) and the
\* tags table (GetTags: ORDER BY name): two rows each, not written by the
\* operations modelled here.
DbProjects == <<1, 2>>
DbTags == <<1, 2>>

ProjectName(p) == IF p = 1 THEN <<"i","n","b","o","x">> ELSE <<"w","o","r","k">>
TagName(t) == IF t = 1 THEN <<"@","x">> ELSE <<"@","y">>

\* a set of ids as the ascending sequence (tags come back ORDER BY name, which
\* is the order of their ids here)
RECURSIVE SeqOfSet(_)
SeqOfSet(S) ==
  IF S = {} THEN <<>>
  ELSE LET m == CHOOSE x \in S : \A y \in S : x <= y
       IN <<m>> \o SeqOfSet(S \ {m})

Range(s) == {s[i] : i \in DOMAIN s}

\* -------------------------------------------------------------------- store

\* A row of the tasks table (001_initial.sql), the columns the controller
\* reads or writes.
Row(title, status, priority, project, parent, completed, position, created) ==
  [title |-> title, status |-> status, priority |-> priority,
   project |-> project, parent |-> parent, completed |-> completed,
   position |-> position, created |-> created, due |-> NoTime]

\* ORDER BY CASE status WHEN 'done' THEN 1 ELSE 0 END
DoneRank(status) == IF status = "done" THEN 1 ELSE 0

PriorityRankSwapped(p) ==
  CASE p = "urgent" -> 3
    [] p = "high" -> 2
    [] p = "medium" -> 1
    [] p = "low" -> 0

\* ORDER BY CASE priority WHEN 'urgent' THEN 0 ... WHEN 'low' THEN 3 END
PriorityRank(p) ==
  CASE p = "urgent" -> 0
    [] p = "high" -> 1
    [] p = "medium" -> 2
    [] p = "low" -> 3

\* The ORDER BY of the task queries: status rank, priority rank, position,
\* created_at DESC.  Rows that agree on all four come back in an order SQL
\* leaves open; the id decides here.
RowBefore(d, a, b) ==
  LET ra == d.tasks[a]
      rb == d.tasks[b]
  IN IF DoneRank(ra.status) # DoneRank(rb.status)
       THEN DoneRank(ra.status) < DoneRank(rb.status)
     ELSE IF PriorityRank(ra.priority) # PriorityRank(rb.priority)
       THEN PriorityRank(ra.priority) < PriorityRank(rb.priority)
     ELSE IF ra.position # rb.position THEN ra.position < rb.position
     ELSE IF ra.created # rb.created THEN ra.created > rb.created
     ELSE a <= b

RECURSIVE OrderBy(_, _)
OrderBy(d, S) ==
  IF S = {} THEN <<>>
  ELSE LET m == CHOOSE x \in S : \A y \in S : RowBefore(d, x, y)
       IN <<m>> \o OrderBy(d, S \ {m})

TopLevelWhereAll(d) ==
  {i \in DOMAIN d.tasks : d.tasks[i].parent = NoId}

\* WHERE status != 'archived' AND parent_id IS NULL
TopLevelWhere(d) ==
  {i \in DOMAIN d.tasks :
     d.tasks[i].status # "archived" /\ d.tasks[i].parent = NoId}

\* The top-level query of loadTasks (the same statement as DB.GetTasks): ids
\* of the rows in the order they are returned.
QueryTopLevel(d) == OrderBy(d, TopLevelWhere(d))

\* scanTaskRow / the scan of loadTasks' first pass: a model.Task without its
\* relations.  A NULL position scans to 0.
ScanTaskRow(d, id) ==
  LET r == d.tasks[id]
  IN [ID |-> id, Title |-> r.title, Status |-> r.status,
      Priority |-> r.priority, ProjectID |-> r.project,
      ParentID |-> r.parent, CompletedAt |-> r.completed,
      DueDate |-> r.due,
      Position |-> IF r.position = NoPos THEN 0 ELSE r.position,
      CreatedAt |-> r.created,
      Tags |-> <<>>, Subtasks |-> <<>>, Dependencies |-> {}]

\* DB.GetTaskTags: the task's tags ORDER BY name, as ids
GetTaskTags(d, id) == SeqOfSet({p[2] : p \in {q \in d.taskTags : q[1] = id}})

\* DB.GetSubtasks: WHERE parent_id = ? with the ORDER BY of the top-level query
GetSubtasks(d, parent) ==
  LET ids == OrderBy(d, {i \in DOMAIN d.tasks : d.tasks[i].parent = parent})
  IN [k \in DOMAIN ids |-> ScanTaskRow(d, ids[k])]

\* DB.GetTaskDependencies: the tasks this one depends on (no ORDER BY: a set)
GetTaskDependencies(d, id) ==
  {p[2] : p \in {q \in d.deps : q[1] = id /\ q[2] \in DOMAIN d.tasks}}

\* DB.IsTaskBlocked: some dependency is not done
IsTaskBlocked(d, id) ==
  \E x \in GetTaskDependencies(d, id) : d.tasks[x].status # "done"

\* The second pass of loadTasks for one task, every call succeeding.
EnrichTask(d, t) ==
  LET subs == GetSubtasks(d, t.ID)
  IN [t EXCEPT
        !.Tags = GetTaskTags(d, t.ID),
        !.Subtasks = [k \in DOMAIN subs |->
                        [subs[k] EXCEPT !.Tags = GetTaskTags(d, subs[k].ID)]],
        !.Dependencies = GetTaskDependencies(d, t.ID)]

\* blockedMap of loadTasks: an entry for every task that has dependencies
BlockedMap(d, tasks) ==
  [id \in {tasks[k].ID : k \in {j \in DOMAIN tasks : tasks[j].Dependencies # {}}}
     |-> IsTaskBlocked(d, id)]

\* ----------------------------------------------------------------- messages

NoTask == [ID |-> NoId]

\* A message.  asOf is not a field of the code's tasksLoadedMsg: it records the
\* rows of the tasks table as the reload's top-level query saw them, so that
\* what a reload adopts can be compared with what the store held then.
Msg(kind) ==
  [kind |-> kind, err |-> FALSE, tasks |-> <<>>, projects |-> <<>>,
   tags |-> <<>>, blocked |-> <<>>, task |-> NoTask, ids |-> <<>>,
   taskID |-> NoId, newPriority |-> "", asOf |-> <<>>]

ErrMsg(kind) == [Msg(kind) EXCEPT !.err = TRUE]

\* loadTasks run without any statement failing
LoadTasksOk(d) ==
  LET ids == QueryTopLevel(d)
      tasks == [k \in DOMAIN ids |-> EnrichTask(d, ScanTaskRow(d, ids[k]))]
  IN [Msg("tasksLoaded") EXCEPT
        !.tasks = tasks, !.projects = DbProjects, !.tags = DbTags,
        !.blocked = BlockedMap(d, tasks), !.asOf = d.tasks]

\* ----------------------------------------------------------------- ListView

\* NewListView: the zero value of every field but the three maps.  expanded
\* is a Go map[string]bool whose entries may hold false (key o writes
\* !v.expanded[id]); selected only ever holds true entries and is a set.
\* cmdSuggestions holds indexes into the command table.  Of the time
\* tracking fields only activeTimeEntryID and activeTaskID are kept, and the
\* entry id is the id of the tracked task (the time_entries table is not
\* modelled).
\* newTasksSlice and newSelectedMap are not fields of the struct: they record,
\* within one Update, that v.tasks was reallocated (applyFilter) or v.selected
\* remade (make), so that the closures of commands still in flight, which hold
\* the old slice or map, stop seeing the controller's writes.  Both are FALSE
\* in every state.
NewListView ==
  [allTasks |-> <<>>, tasks |-> <<>>, projects |-> <<>>, tags |-> <<>>,
   cursor |-> 0, selected |-> {}, expanded |-> <<>>, blocked |-> <<>>,
   mode |-> "normal", input |-> <<>>, editingID |-> NoId,
   editingOldTask |-> NoTask, parentID |-> NoId, searchFilter |-> <<>>,
   statusMsg |-> <<>>, filterProjectID |-> NoId, filterTagIDs |-> <<>>,
   selectingProject |-> FALSE, selectingTag |-> FALSE, selectorCursor |-> 0,
   selectingProjectFilter |-> FALSE, selectingTagFilter |-> FALSE,
   selectorSearch |-> <<>>, selectingParent |-> FALSE, parentTaskID |-> NoId,
   parentCandidates |-> <<>>, selectingDep |-> FALSE, depTaskID |-> NoId,
   depTasks |-> <<>>, deleteIDs |-> <<>>, cmdSuggestions |-> <<>>,
   cmdCursor |-> 0,
   activeTimeEntryID |-> NoId, activeTaskID |-> NoId,
   deferResortTaskID |-> NoId, focusAfterLoadTaskID |-> NoId,
   viewMode |-> "all", undoStack |-> <<>>, redoStack |-> <<>>,
   newTasksSlice |-> FALSE, newSelectedMap |-> FALSE]

\* v.expanded[id]: false for a missing key
IsExpanded(w, id) == id \in DOMAIN w.expanded /\ w.expanded[id]

\* v.expanded[id] = b
SetExpanded(w, id, b) ==
  [w EXCEPT !.expanded =
     [k \in (DOMAIN w.expanded) \cup {id} |-> IF k = id THEN b ELSE w.expanded[k]]]

\* ---------------------------------------------------------- filter, flatten

\* taskHasAllTags with "all" read as "some"
TaskHasSomeTag(task, tagIDs) ==
  \E k \in DOMAIN tagIDs : tagIDs[k] \in Range(task.Tags)

\* taskHasAllTags: every listed tag id is among the task's tags
TaskHasAllTags(task, tagIDs) ==
  \A k \in DOMAIN tagIDs : tagIDs[k] \in Range(task.Tags)

\* matchesFilter without the recursion into subtasks: the task's own fields.
\* Description is not modelled (the controller never writes it: always "").
MatchesOwnFields(task, filter) ==
  \/ Contains(ToLower(task.Title), filter)
  \/ Contains(<<>>, filter)
  \/ task.ProjectID # NoId /\ Contains(ToLower(ProjectName(task.ProjectID)), filter)
  \/ \E k \in DOMAIN task.Tags :
       Contains(ToLower(TagName(task.Tags[k])), TrimPrefix(filter, <<"@">>))
  \/ Contains(ToLower(StatusText(task.Status)), filter)
  \/ Contains(ToLower(PriorityText(task.Priority)), TrimPrefix(filter, <<"!">>))

\* matchesFilter: own fields, then each subtask (subtasks carry no subtasks
\* of their own, so the recursion ends one level down)
MatchesFilter(task, filter) ==
  \/ MatchesOwnFields(task, filter)
  \/ \E k \in DOMAIN task.Subtasks : MatchesOwnFields(task.Subtasks[k], filter)

\* the view-mode switch of applyFilter: TRUE when the task is skipped
ViewModeSkips(w, task, now) ==
  CASE w.viewMode = "active" -> task.Status = "done"
    [] w.viewMode = "recent" ->
         /\ task.Status = "done"
         /\ \/ task.CompletedAt = NoTime
            \/ task.CompletedAt < now - RecentDays
    [] OTHER -> FALSE

\* the body of applyFilter's loop for one task: TRUE when it is kept
KeepsTask(w, task, now) ==
  /\ ~ViewModeSkips(w, task, now)
  /\ w.filterProjectID # NoId => task.ProjectID = w.filterProjectID
  /\ Len(w.filterTagIDs) > 0 => TaskHasAllTags(task, w.filterTagIDs)
  /\ w.searchFilter # <<>> => MatchesFilter(task, ToLower(w.searchFilter))

\* applyFilter's loop over v.allTasks, appending the kept tasks in order
RECURSIVE FilterTasks(_, _, _)
FilterTasks(w, ts, now) ==
  IF ts = <<>> THEN <<>>
  ELSE IF KeepsTask(w, Head(ts), now)
    THEN <<Head(ts)>> \o FilterTasks(w, Tail(ts), now)
    ELSE FilterTasks(w, Tail(ts), now)

\* flattenTasks that lists subtasks before their parent
RECURSIVE FlattenSubtasksFirst(_, _)
FlattenSubtasksFirst(w, ts) ==
  IF ts = <<>> THEN <<>>
  ELSE LET t == Head(ts)
       IN (IF IsExpanded(w, t.ID) THEN t.Subtasks ELSE <<>>)
          \o <<t>> \o FlattenSubtasksFirst(w, Tail(ts))

\* flattenTasks: each task, then its subtasks when it is expanded and has any
RECURSIVE FlattenTasks(_, _)
FlattenTasks(w, ts) ==
  IF ts = <<>> THEN <<>>
  ELSE LET t == Head(ts)
       IN <<t>>
          \o (IF IsExpanded(w, t.ID) /\ Len(t.Subtasks) > 0 THEN t.Subtasks ELSE <<>>)
          \o FlattenTasks(w, Tail(ts))

\* applyFilter without its cursor clamp
ClampCursorNot(w) == w

\* the cursor clamp that ends applyFilter and the reload
ClampCursor(w) ==
  IF w.cursor >= Len(w.tasks)
    THEN [w EXCEPT !.cursor = Max2(0, Len(w.tasks) - 1)]
    ELSE w

\* applyFilter: filter v.allTasks, flatten into a new slice, clamp the cursor.
\* (ensureCursorVisible only moves scrollOffset, which is not modelled.)
ApplyFilter(w, now) ==
  LET filtered == FilterTasks(w, w.allTasks, now)
  IN ClampCursor([w EXCEPT !.tasks = FlattenTasks(w, filtered),
                           !.newTasksSlice = TRUE])

\* hasActiveFilters
HasActiveFilters(w) ==
  w.searchFilter # <<>> \/ w.filterProjectID # NoId \/ Len(w.filterTagIDs) > 0

\* ----------------------------------------------------------------- commands

\* A tea.Cmd: the closure a handler returns, run later on a goroutine.
\* capCursor is the v.cursor the closure captured.  The v.tasks and v.selected
\* it captured are the controller's own slice and map while tasksLive and
\* selLive hold (the controller's writes in place show through); once the
\* controller has replaced its slice or map they are capTasks and capSelected.
Cmd(kind) ==
  [kind |-> kind, ids |-> <<>>, id |-> NoId, title |-> <<>>,
   parentID |-> NoId, task |-> NoTask, projectID |-> NoId, tagIDs |-> <<>>,
   dependsOnID |-> NoId, priority |-> "", capTasks |-> <<>>, capCursor |-> 0, capSelected |-> {},
   tasksLive |-> FALSE, selLive |-> FALSE]

NoCmd == Cmd("none")

\* a closure over v: captures the slice, the cursor and the map
Closure(kind, w) ==
  [Cmd(kind) EXCEPT !.capCursor = w.cursor, !.tasksLive = TRUE, !.selLive = TRUE]

\* what an Update returns: the new view and the command
R(w, c) == [v |-> w, cmd |-> c]

\* --------------------------------------------------------------- text input

\* Keys whose String() is one character.  The selectors accept letters, digits,
\* space, - and _ ; the text input accepts every rune.
Punctuation == {" ", "-", "_", "@", "!", "/", ":", "?"}
SelectorChars == Range(Lowercase) \cup Range(Uppercase) \cup {" ", "-", "_"}
RuneKeys == Range(Lowercase) \cup Range(Uppercase) \cup Punctuation

\* textinput.Model.Update for a key: a rune is appended at the end (SetValue
\* leaves the cursor there), backspace removes the last one, any other key
\* leaves the value alone.  MaxInput stands for CharLimit.
InputUpdate(input, key) ==
  IF key \in RuneKeys
    THEN IF Len(input) < MaxInput THEN Append(input, key) ELSE input
  ELSE IF key = "backspace" /\ input # <<>>
    THEN SubSeq(input, 1, Len(input) - 1)
  ELSE input

\* ----------------------------------------------------- undo records, helpers

UndoAction(type, id, task, old, new) ==
  [Type |-> type, TaskID |-> id, Task |-> task, OldTask |-> old, NewTask |-> new]

\* pushUndo that never drops a record
PushUndoKeepsAll(w, action) ==
  [w EXCEPT !.undoStack = Append(@, action), !.redoStack = <<>>]

\* pushUndo: append, drop the oldest beyond the limit, clear the redo stack
PushUndo(w, action) ==
  LET st == Append(w.undoStack, action)
  IN [w EXCEPT !.undoStack = IF Len(st) > UndoLimit THEN Tail(st) ELSE st,
               !.redoStack = <<>>]

RECURSIVE PushUndoAll(_, _)
PushUndoAll(w, actions) ==
  IF actions = <<>> THEN w
  ELSE PushUndoAll(PushUndo(w, Head(actions)), Tail(actions))

\* the switch on task.Priority of key p and of cyclePriority
NextPriority(p) ==
  CASE p = "low" -> "medium"
    [] p = "medium" -> "high"
    [] p = "high" -> "urgent"
    [] p = "urgent" -> "low"
    [] OTHER -> "medium"

\* the task under the cursor (callers check len(v.tasks) > 0 first)
CursorTask(w) == w.tasks[w.cursor + 1]

\* first task of ts with the given id, NoTask when there is none
FindTask(ts, id) ==
  IF \E k \in DOMAIN ts : ts[k].ID = id
    THEN ts[CHOOSE k \in DOMAIN ts :
              ts[k].ID = id /\ \A j \in 1..(k - 1) : ts[j].ID # id]
    ELSE NoTask

\* The orders in which a range over a Go map with key set S may visit it.
MapOrders(S) ==
  {f \in [1..Cardinality(S) -> S] : \A i, j \in DOMAIN f : f[i] = f[j] => i = j}

\* getTargetTaskIDs that adds the task at the cursor to a selection
GetTargetTaskIDsWithCursor(w, order) ==
  order \o (IF Len(w.tasks) > 0 /\ w.cursor < Len(w.tasks)
              THEN <<CursorTask(w).ID>> ELSE <<>>)

\* getTargetTaskIDs: the selected ids in the order the range over v.selected
\* visits them, else the id under the cursor
GetTargetTaskIDs(w, order) ==
  IF Len(order) = 0 /\ Len(w.tasks) > 0 /\ w.cursor < Len(w.tasks)
    THEN <<CursorTask(w).ID>>
    ELSE order

\* checkDeferredResort: the view after the check and whether loadTasks is due
CheckDeferredResort(w, oldCursor) ==
  IF /\ w.deferResortTaskID # NoId
     /\ oldCursor >= 0 /\ oldCursor < Len(w.tasks)
     /\ w.tasks[oldCursor + 1].ID = w.deferResortTaskID
    THEN R([w EXCEPT !.deferResortTaskID = NoId], Cmd("loadTasks"))
    ELSE R(w, NoCmd)

\* updateLocalTaskPriority: the first match in allTasks and the first match in
\* tasks, each written in place
UpdateLocalTaskPriority(w, id, pr) ==
  LET setFirst(ts) ==
        [k \in DOMAIN ts |->
           IF ts[k].ID = id /\ \A j \in 1..(k - 1) : ts[j].ID # id
             THEN [ts[k] EXCEPT !.Priority = pr] ELSE ts[k]]
  IN [w EXCEPT !.allTasks = setFirst(w.allTasks), !.tasks = setFirst(w.tasks)]

\* ---------------------------------------------------------------- selectors

\* the "type to filter" default branch and the backspace branch shared by the
\* filter and parent selectors
SelectorType(w, key) ==
  IF key \in SelectorChars
    THEN [w EXCEPT !.selectorSearch = Append(@, key), !.selectorCursor = 0]
    ELSE w

SelectorBackspace(w) ==
  IF Len(w.selectorSearch) > 0
    THEN [w EXCEPT !.selectorSearch = SubSeq(@, 1, Len(@) - 1),
                   !.selectorCursor = 0]
    ELSE w

\* the "up", "k" and "down", "j" branches: hasFirst is hasAllOption,
\* hasClearOption or hasRemoveOption, n is len(filtered)
SelectorUp(w, hasFirst, n) ==
  IF w.selectorCursor > 0 THEN [w EXCEPT !.selectorCursor = @ - 1]
  ELSE IF hasFirst THEN [w EXCEPT !.selectorCursor = n]
  ELSE IF n > 0 THEN [w EXCEPT !.selectorCursor = n - 1]
  ELSE w

SelectorDown(w, hasFirst, n) ==
  LET limit == IF hasFirst THEN n ELSE n - 1
  IN IF w.selectorCursor < limit THEN [w EXCEPT !.selectorCursor = @ + 1]
     ELSE [w EXCEPT !.selectorCursor = 0]

\* getFilteredProjects
GetFilteredProjects(w) ==
  IF w.selectorSearch = <<>> THEN w.projects
  ELSE SelectSeq(w.projects,
         LAMBDA p : Contains(ToLower(ProjectName(p)), ToLower(w.selectorSearch)))

\* getFilteredTags
GetFilteredTags(w) ==
  IF w.selectorSearch = <<>> THEN w.tags
  ELSE SelectSeq(w.tags,
         LAMBDA t : Contains(ToLower(TagName(t)), ToLower(w.selectorSearch)))

\* getFilteredParentCandidates
GetFilteredParentCandidates(w) ==
  IF w.selectorSearch = <<>> THEN w.parentCandidates
  ELSE SelectSeq(w.parentCandidates,
         LAMBDA t : Contains(ToLower(t.Title), ToLower(w.selectorSearch)))

\* handleProjectFilterSelector
HandleProjectFilterSelector(w, key, now) ==
  LET filtered == GetFilteredProjects(w)
      hasAllOption == w.selectorSearch = <<>>
      n == Len(filtered)
      chosen ==
        IF hasAllOption
          THEN IF w.selectorCursor = 0
                 THEN [w EXCEPT !.filterProjectID = NoId,
                                !.statusMsg = <<"Showing all projects">>]
               ELSE IF w.selectorCursor <= n
                 THEN [w EXCEPT !.filterProjectID = filtered[w.selectorCursor],
                                !.statusMsg = <<"Filtering by project",
                                                filtered[w.selectorCursor]>>]
               ELSE w
        ELSE IF n > 0 /\ w.selectorCursor < n
          THEN [w EXCEPT !.filterProjectID = filtered[w.selectorCursor + 1],
                         !.statusMsg = <<"Filtering by project",
                                         filtered[w.selectorCursor + 1]>>]
        ELSE w
  IN CASE key \in {"up", "k"} -> R(SelectorUp(w, hasAllOption, n), NoCmd)
       [] key \in {"down", "j"} -> R(SelectorDown(w, hasAllOption, n), NoCmd)
       [] key = "enter" ->
            R(ApplyFilter([chosen EXCEPT !.selectingProjectFilter = FALSE,
                                         !.selectorSearch = <<>>], now), NoCmd)
       [] key = "esc" ->
            R([w EXCEPT !.selectingProjectFilter = FALSE,
                        !.selectorSearch = <<>>], NoCmd)
       [] key \in {"backspace", "ctrl+h"} -> R(SelectorBackspace(w), NoCmd)
       [] OTHER -> R(SelectorType(w, key), NoCmd)

\* toggleTagFilter
ToggleTagFilter(w, tag, now) ==
  LET found == \E k \in DOMAIN w.filterTagIDs : w.filterTagIDs[k] = tag
      newTags == SelectSeq(w.filterTagIDs, LAMBDA id : id # tag)
  IN ApplyFilter(
       IF found
         THEN [w EXCEPT !.filterTagIDs = newTags,
                        !.statusMsg = <<"Removed from filter", tag>>]
         ELSE [w EXCEPT !.filterTagIDs = Append(@, tag),
                        !.statusMsg = <<"Added to filter", tag>>], now)

\* handleTagFilterSelector
HandleTagFilterSelector(w, key, now) ==
  LET filtered == GetFilteredTags(w)
      hasClearOption == w.selectorSearch = <<>>
      n == Len(filtered)
  IN CASE key \in {"up", "k"} -> R(SelectorUp(w, hasClearOption, n), NoCmd)
       [] key \in {"down", "j"} -> R(SelectorDown(w, hasClearOption, n), NoCmd)
       [] key \in {"enter", " "} ->
            IF hasClearOption
              THEN IF w.selectorCursor = 0
                     THEN R(ApplyFilter([w EXCEPT !.filterTagIDs = <<>>,
                                                  !.statusMsg = <<"Tag filter cleared">>,
                                                  !.selectorSearch = <<>>], now),
                            NoCmd)
                   ELSE IF w.selectorCursor <= n
                     THEN R(ToggleTagFilter(w, filtered[w.selectorCursor], now), NoCmd)
                   ELSE R(w, NoCmd)
            ELSE IF n > 0 /\ w.selectorCursor < n
              THEN R(ToggleTagFilter(w, filtered[w.selectorCursor + 1], now), NoCmd)
            ELSE R(w, NoCmd)
       [] key = "esc" ->
            R([w EXCEPT !.selectingTagFilter = FALSE,
                        !.selectorSearch = <<>>], NoCmd)
       [] key \in {"backspace", "ctrl+h"} -> R(SelectorBackspace(w), NoCmd)
       [] OTHER -> R(SelectorType(w, key), NoCmd)

\* getParentCandidates: the top-level tasks of allTasks other than the task
GetParentCandidates(w, taskID) ==
  SelectSeq(w.allTasks, LAMBDA t : t.ID # taskID /\ t.ParentID = NoId)

\* setTaskParent(taskID, parentID)
SetTaskParentCmd(taskID, parentID) ==
  [Cmd("setTaskParent") EXCEPT !.id = taskID, !.parentID = parentID]

\* handleParentSelector.  currentTask is the zero Task when parentTaskID is
\* no longer among v.tasks, and then has no parent.
HandleParentSelector(w, key) ==
  LET filtered == GetFilteredParentCandidates(w)
      currentTask == FindTask(w.tasks, w.parentTaskID)
      hasRemoveOption ==
        /\ w.selectorSearch = <<>>
        /\ currentTask # NoTask
        /\ currentTask.ParentID # NoId
      n == Len(filtered)
      idx == IF hasRemoveOption THEN w.selectorCursor - 1 ELSE w.selectorCursor
      closed == [w EXCEPT !.selectingParent = FALSE, !.selectorSearch = <<>>]
  IN CASE key \in {"up", "k"} -> R(SelectorUp(w, hasRemoveOption, n), NoCmd)
       [] key \in {"down", "j"} -> R(SelectorDown(w, hasRemoveOption, n), NoCmd)
       [] key = "enter" ->
            IF hasRemoveOption /\ w.selectorCursor = 0
              THEN R(closed, SetTaskParentCmd(w.parentTaskID, NoId))
            ELSE IF idx >= 0 /\ idx < n
              THEN R(closed, SetTaskParentCmd(w.parentTaskID, filtered[idx + 1].ID))
            ELSE R(closed, NoCmd)
       [] key = "esc" -> R(closed, NoCmd)
       [] key \in {"backspace", "ctrl+h"} -> R(SelectorBackspace(w), NoCmd)
       [] OTHER -> R(SelectorType(w, key), NoCmd)

\* moveTaskToProject, addTagToTask, removeTagFromTask, addDependency,
\* removeDependency
MoveTaskToProjectCmd(taskID, projectID) ==
  [Cmd("moveTaskToProject") EXCEPT !.id = taskID, !.projectID = projectID]
TagCmd(kind, taskID, tagID) == [Cmd(kind) EXCEPT !.id = taskID, !.tagIDs = <<tagID>>]
DependencyCmd(kind, taskID, dependsOnID) ==
  [Cmd(kind) EXCEPT !.id = taskID, !.dependsOnID = dependsOnID]

\* v.tasks[v.cursor] with the index out of range: the goroutine panics and
\* the program ends
Panic == Cmd("panic")

\* handleProjectSelector (key m)
HandleProjectSelector(w, key) ==
  LET n == Len(w.projects)
  IN CASE key \in {"up", "k"} -> R(SelectorUp(w, FALSE, n), NoCmd)
       [] key \in {"down", "j"} -> R(SelectorDown(w, FALSE, n), NoCmd)
       [] key = "enter" ->
            IF w.selectorCursor >= n THEN R(w, NoCmd)
            ELSE IF w.cursor >= Len(w.tasks) THEN R(w, Panic)
            ELSE R([w EXCEPT !.selectingProject = FALSE],
                   MoveTaskToProjectCmd(CursorTask(w).ID, w.projects[w.selectorCursor + 1]))
       [] key = "esc" -> R([w EXCEPT !.selectingProject = FALSE], NoCmd)
       [] OTHER -> R(w, NoCmd)

\* a tag selector that lets enter through to the list, which opens the editor
HandleTagSelectorFallsThrough(w, key) ==
  IF key = "esc" THEN R([w EXCEPT !.selectingTag = FALSE], NoCmd)
  ELSE IF key = "enter" /\ Len(w.tasks) > 0
    THEN R([w EXCEPT !.mode = "edit", !.editingID = CursorTask(w).ID,
                     !.editingOldTask = CursorTask(w),
                     !.input = CursorTask(w).Title], NoCmd)
  ELSE R(w, NoCmd)

\* handleTagSelector (key t): the selector stays open after a toggle
HandleTagSelector(w, key) ==
  LET n == Len(w.tags)
      tag == w.tags[w.selectorCursor + 1]
      task == CursorTask(w)
  IN CASE key \in {"up", "k"} -> R(SelectorUp(w, FALSE, n), NoCmd)
       [] key \in {"down", "j"} -> R(SelectorDown(w, FALSE, n), NoCmd)
       [] key \in {"enter", " "} ->
            IF w.selectorCursor >= n THEN R(w, NoCmd)
            ELSE IF w.cursor >= Len(w.tasks) THEN R(w, Panic)
            ELSE IF \E k \in DOMAIN task.Tags : task.Tags[k] = tag
              THEN R(w, TagCmd("removeTagFromTask", task.ID, tag))
              ELSE R(w, TagCmd("addTagToTask", task.ID, tag))
       [] key = "esc" -> R([w EXCEPT !.selectingTag = FALSE], NoCmd)
       [] OTHER -> R(w, NoCmd)

\* handleDependencySelector (key b): the cursor does not wrap
HandleDependencySelector(w, key) ==
  LET depTask == w.depTasks[w.selectorCursor + 1]
  IN CASE key \in {"up", "k"} ->
            R(IF w.selectorCursor > 0 THEN [w EXCEPT !.selectorCursor = @ - 1] ELSE w,
              NoCmd)
       [] key \in {"down", "j"} ->
            R(IF w.selectorCursor < Len(w.depTasks) - 1
                THEN [w EXCEPT !.selectorCursor = @ + 1] ELSE w, NoCmd)
       [] key \in {"enter", " "} ->
            IF w.selectorCursor >= Len(w.depTasks) THEN R(w, NoCmd)
            ELSE IF w.cursor >= Len(w.tasks) THEN R(w, Panic)
            ELSE IF depTask.ID \in CursorTask(w).Dependencies
              THEN R(w, DependencyCmd("removeDependency", w.depTaskID, depTask.ID))
              ELSE R(w, DependencyCmd("addDependency", w.depTaskID, depTask.ID))
       [] key = "esc" -> R([w EXCEPT !.selectingDep = FALSE, !.depTaskID = NoId], NoCmd)
       [] OTHER -> R(w, NoCmd)

\* -------------------------------------------------------------- undo and redo

DeleteTaskByIDCmd(taskID) == [Cmd("deleteTaskByID") EXCEPT !.id = taskID]
RestoreTaskCmd(task) == [Cmd("restoreTask") EXCEPT !.task = task]
RestoreTaskStateCmd(task) == [Cmd("restoreTaskState") EXCEPT !.task = task]

\* executeUndo
ExecuteUndo(w, action) ==
  CASE action.Type = "create" ->
         R([w EXCEPT !.statusMsg = <<"Undo: removed", action.Task.Title>>],
           DeleteTaskByIDCmd(action.TaskID))
    [] action.Type = "delete" ->
         R([w EXCEPT !.statusMsg = <<"Undo: restored", action.Task.Title>>],
           RestoreTaskCmd(action.Task))
    [] action.Type = "update" ->
         R([w EXCEPT !.statusMsg = <<"Undo: reverted", action.OldTask.Title>>],
           RestoreTaskStateCmd(action.OldTask))
    [] action.Type = "toggleStatus" ->
         R([w EXCEPT !.statusMsg = <<"Undo: status reverted", action.OldTask.Title>>],
           RestoreTaskStateCmd(action.OldTask))
    [] action.Type = "setParent" ->
         R([w EXCEPT !.statusMsg = <<"Undo: parent reverted">>],
           SetTaskParentCmd(action.TaskID,
             IF action.OldTask # NoTask THEN action.OldTask.ParentID ELSE NoId))
    [] OTHER -> R(w, NoCmd)

\* executeRedo
ExecuteRedo(w, action) ==
  CASE action.Type = "create" ->
         R([w EXCEPT !.statusMsg = <<"Redo: restored", action.Task.Title>>],
           RestoreTaskCmd(action.Task))
    [] action.Type = "delete" ->
         R([w EXCEPT !.statusMsg = <<"Redo: removed", action.Task.Title>>],
           DeleteTaskByIDCmd(action.TaskID))
    [] action.Type = "update" ->
         R([w EXCEPT !.statusMsg = <<"Redo: updated", action.NewTask.Title>>],
           RestoreTaskStateCmd(action.NewTask))
    [] action.Type = "toggleStatus" ->
         R([w EXCEPT !.statusMsg = <<"Redo: status updated", action.NewTask.Title>>],
           RestoreTaskStateCmd(action.NewTask))
    [] action.Type = "setParent" ->
         R([w EXCEPT !.statusMsg = <<"Redo: parent updated">>],
           SetTaskParentCmd(action.TaskID,
             IF action.NewTask # NoTask THEN action.NewTask.ParentID ELSE NoId))
    [] OTHER -> R(w, NoCmd)

\* undo: pop the undo stack onto the redo stack and execute
Undo(w) ==
  IF Len(w.undoStack) = 0
    THEN R([w EXCEPT !.statusMsg = <<"Nothing to undo">>], NoCmd)
    ELSE LET action == w.undoStack[Len(w.undoStack)]
         IN ExecuteUndo([w EXCEPT
                           !.undoStack = SubSeq(@, 1, Len(@) - 1),
                           !.redoStack = Append(@, action)], action)

\* redo: pop the redo stack onto the undo stack (no limit applied) and execute
Redo(w) ==
  IF Len(w.redoStack) = 0
    THEN R([w EXCEPT !.statusMsg = <<"Nothing to redo">>], NoCmd)
    ELSE LET action == w.redoStack[Len(w.redoStack)]
         IN ExecuteRedo([w EXCEPT
                           !.redoStack = SubSeq(@, 1, Len(@) - 1),
                           !.undoStack = Append(@, action)], action)

\* ------------------------------------------------------------ command lines

\* index of the first space of s, Len(s) + 1 when there is none
FirstSpace(s) ==
  IF \E i \in DOMAIN s : s[i] = " "
    THEN CHOOSE i \in DOMAIN s : s[i] = " " /\ \A j \in 1..(i - 1) : s[j] # " "
    ELSE Len(s) + 1

\* strings.Fields: the words of s
RECURSIVE Fields(_)
Fields(s) ==
  LET t == TrimLeft(s)
  IN IF t = <<>> THEN <<>>
     ELSE <<SubSeq(t, 1, FirstSpace(t) - 1)>>
          \o Fields(SubSeq(t, FirstSpace(t), Len(t)))

\* strings.Join(words, " ")
RECURSIVE Join(_)
Join(words) ==
  IF words = <<>> THEN <<>>
  ELSE IF Len(words) = 1 THEN words[1]
  ELSE words[1] \o <<" ">> \o Join(Tail(words))

\* allCommands: the command palette's table (Description and Usage are display
\* text and are left out)
AllCommands ==
  <<
    [Name |-> <<"d", "u", "e">>, Aliases |-> <<<<"d">>>>, HasArgs |-> TRUE],
    [Name |-> <<"p", "r", "i", "o", "r", "i", "t", "y">>, Aliases |-> <<<<"p", "r", "i">>, <<"p">>>>, HasArgs |-> TRUE],
    [Name |-> <<"t", "a", "g">>, Aliases |-> <<<<"t">>>>, HasArgs |-> TRUE],
    [Name |-> <<"p", "r", "o", "j", "e", "c", "t">>, Aliases |-> <<<<"p", "r", "o", "j">>, <<"m", "v">>, <<"m", "o", "v", "e">>>>, HasArgs |-> TRUE],
    [Name |-> <<"p", "a", "r", "e", "n", "t">>, Aliases |-> <<<<"s", "e", "t", "p", "a", "r", "e", "n", "t">>>>, HasArgs |-> FALSE],
    [Name |-> <<"n", "e", "w", "p", "r", "o", "j", "e", "c", "t">>, Aliases |-> <<<<"n", "p">>, <<"a", "d", "d", "p", "r", "o", "j", "e", "c", "t">>>>, HasArgs |-> TRUE],
    [Name |-> <<"r", "e", "c", "o", "l", "o", "r">>, Aliases |-> <<>>, HasArgs |-> FALSE],
    [Name |-> <<"n", "e", "w", "t", "a", "g">>, Aliases |-> <<<<"n", "t">>, <<"a", "d", "d", "t", "a", "g">>>>, HasArgs |-> TRUE],
    [Name |-> <<"r", "e", "c", "o", "l", "o", "r", "t", "a", "g", "s">>, Aliases |-> <<>>, HasArgs |-> FALSE],
    [Name |-> <<"d", "o", "n", "e">>, Aliases |-> <<<<"c", "o", "m", "p", "l", "e", "t", "e">>, <<"f", "i", "n", "i", "s", "h">>>>, HasArgs |-> FALSE],
    [Name |-> <<"a", "r", "c", "h", "i", "v", "e">>, Aliases |-> <<<<"a", "r", "c", "h">>>>, HasArgs |-> FALSE],
    [Name |-> <<"d", "e", "l", "e", "t", "e">>, Aliases |-> <<<<"d", "e", "l">>, <<"r", "m">>>>, HasArgs |-> FALSE],
    [Name |-> <<"t", "h", "e", "m", "e">>, Aliases |-> <<>>, HasArgs |-> TRUE],
    [Name |-> <<"s", "o", "r", "t">>, Aliases |-> <<>>, HasArgs |-> TRUE],
    [Name |-> <<"f", "i", "l", "t", "e", "r">>, Aliases |-> <<<<"f">>>>, HasArgs |-> TRUE],
    [Name |-> <<"f", "i", "l", "t", "e", "r", "p", "r", "o", "j", "e", "c", "t">>, Aliases |-> <<<<"f", "p">>>>, HasArgs |-> FALSE],
    [Name |-> <<"f", "i", "l", "t", "e", "r", "t", "a", "g">>, Aliases |-> <<<<"f", "t">>>>, HasArgs |-> FALSE],
    [Name |-> <<"c", "l", "e", "a", "r">>, Aliases |-> <<>>, HasArgs |-> FALSE],
    [Name |-> <<"p", "r", "o", "j", "e", "c", "t", "s">>, Aliases |-> <<<<"l", "s", "p">>>>, HasArgs |-> FALSE],
    [Name |-> <<"t", "a", "g", "s">>, Aliases |-> <<<<"l", "s", "t">>>>, HasArgs |-> FALSE],
    [Name |-> <<"s", "t", "a", "r", "t", "t", "i", "m", "e">>, Aliases |-> <<<<"s", "t", "a", "r", "t">>, <<"t", "r", "a", "c", "k">>>>, HasArgs |-> FALSE],
    [Name |-> <<"s", "t", "o", "p", "t", "i", "m", "e">>, Aliases |-> <<<<"s", "t", "o", "p">>>>, HasArgs |-> FALSE],
    [Name |-> <<"a", "d", "d", "t", "i", "m", "e">>, Aliases |-> <<<<"l", "o", "g", "t", "i", "m", "e">>>>, HasArgs |-> TRUE],
    [Name |-> <<"h", "e", "l", "p">>, Aliases |-> <<<<"h">>, <<"?">>>>, HasArgs |-> FALSE]
  >>

\* updateCommandSuggestions: cmdSuggestions holds indexes into AllCommands
UpdateCommandSuggestions(w) ==
  LET input == TrimSpace(ToLower(w.input))
      matches ==
        SelectSeq([i \in DOMAIN AllCommands |-> i],
          LAMBDA i :
            \/ HasPrefix(AllCommands[i].Name, input)
            \/ \E a \in DOMAIN AllCommands[i].Aliases :
                 HasPrefix(AllCommands[i].Aliases[a], input))
  IN IF Contains(input, <<" ">>)
       THEN [w EXCEPT !.cmdSuggestions = <<>>, !.cmdCursor = 0]
       ELSE [w EXCEPT !.cmdSuggestions = matches,
                      !.cmdCursor = IF @ >= Len(matches) THEN 0 ELSE @]

\* the commands of the colon commands
ArchiveTasksCmd(ids) == [Cmd("archiveTasks") EXCEPT !.ids = ids]
SetPriorityCmd(ids, p) == [Cmd("setPriority") EXCEPT !.ids = ids, !.priority = p]

\* cmdSetPriority
CmdSetPriority(w, args, order) ==
  LET priority == IF args = <<>> THEN <<>> ELSE ToLower(args[1])
      p == CASE priority \in {<<"l", "o", "w">>, <<"l">>} -> "low"
             [] priority \in {<<"m", "e", "d", "i", "u", "m">>, <<"m", "e", "d">>, <<"m">>} -> "medium"
             [] priority \in {<<"h", "i", "g", "h">>, <<"h", "i">>, <<"h">>} -> "high"
             [] priority \in {<<"u", "r", "g", "e", "n", "t">>, <<"u">>} -> "urgent"
             [] OTHER -> ""
      taskIDs == GetTargetTaskIDs(w, order)
  IN IF Len(args) = 0
       THEN R([w EXCEPT !.statusMsg = <<"Usage: priority">>], NoCmd)
     ELSE IF p = ""
       THEN R([w EXCEPT !.statusMsg = <<"Unknown priority", priority>>], NoCmd)
     ELSE IF Len(taskIDs) = 0
       THEN R([w EXCEPT !.statusMsg = <<"No task selected">>], NoCmd)
     ELSE R(w, SetPriorityCmd(taskIDs, p))

\* cmdSetParent
CmdSetParent(w) ==
  IF Len(w.tasks) = 0
    THEN R([w EXCEPT !.statusMsg = <<"No task selected">>], NoCmd)
  ELSE IF Len(CursorTask(w).Subtasks) > 0
    THEN R([w EXCEPT !.statusMsg =
              <<"Cannot make a task with subtasks into a subtask">>], NoCmd)
  ELSE IF Len(GetParentCandidates(w, CursorTask(w).ID)) = 0
    THEN R([w EXCEPT !.parentCandidates = <<>>,
                     !.statusMsg = <<"No valid parent tasks available">>], NoCmd)
  ELSE R([w EXCEPT !.parentCandidates = GetParentCandidates(w, CursorTask(w).ID),
                   !.selectingParent = TRUE,
                   !.parentTaskID = CursorTask(w).ID,
                   !.selectorCursor = 0,
                   !.selectorSearch = <<>>], NoCmd)

\* cmdArchive
CmdArchive(w, order) ==
  LET taskIDs == GetTargetTaskIDs(w, order)
  IN IF Len(taskIDs) = 0
       THEN R([w EXCEPT !.statusMsg = <<"No task selected">>], NoCmd)
       ELSE R(w, ArchiveTasksCmd(taskIDs))

\* cmdToggleDone
CmdToggleDone(w) ==
  IF Len(w.tasks) = 0
    THEN R([w EXCEPT !.statusMsg = <<"No task selected">>], NoCmd)
    ELSE R(w, Closure("toggleSelected", w))

\* cmdFilter
CmdFilter(w, args, now) ==
  IF Len(args) = 0
    THEN R([w EXCEPT !.statusMsg = <<"Usage: filter">>], NoCmd)
    ELSE R([ApplyFilter([w EXCEPT !.searchFilter = Join(args)], now)
              EXCEPT !.statusMsg = <<"Filter", Join(args)>>], NoCmd)

\* cmdFilterProject and cmdFilterTag
CmdFilterProject(w) ==
  R([w EXCEPT !.selectingProjectFilter = TRUE, !.selectorCursor = 0,
              !.selectorSearch = <<>>], NoCmd)

CmdFilterTag(w) ==
  R([w EXCEPT !.selectingTagFilter = TRUE, !.selectorCursor = 0,
              !.selectorSearch = <<>>], NoCmd)

\* cmdClearFilters
CmdClearFilters(w, now) ==
  R([ApplyFilter([w EXCEPT !.searchFilter = <<>>, !.filterProjectID = NoId,
                           !.filterTagIDs = <<>>], now)
       EXCEPT !.statusMsg = <<"Filters cleared">>], NoCmd)

\* cmdSort: a status message only
CmdSort(w, args) ==
  LET field == IF args = <<>> THEN <<>> ELSE ToLower(args[1])
  IN R([w EXCEPT !.statusMsg =
          IF Len(args) = 0 THEN <<"Usage: sort">>
          ELSE IF field \in {<<"p", "r", "i", "o", "r", "i", "t", "y">>, <<"p", "r", "i">>, <<"p">>} THEN <<"Sorted by priority">>
          ELSE IF field \in {<<"d", "u", "e">>, <<"d">>} THEN <<"Sorted by due date">>
          ELSE IF field \in {<<"t", "i", "t", "l", "e">>, <<"t">>} THEN <<"Sorted by title">>
          ELSE IF field \in {<<"s", "t", "a", "t", "u", "s">>, <<"s">>} THEN <<"Sorted by status">>
          ELSE <<"Unknown sort field", field>>], NoCmd)

\* cmdMoveToProject
MoveToProjectCmd(ids, projectID) ==
  [Cmd("moveToProject") EXCEPT !.ids = ids, !.projectID = projectID]

CmdMoveToProject(w, args, order) ==
  LET projectName == ToLower(Join(args))
      found == SelectSeq(w.projects,
                 LAMBDA p : ToLower(ProjectName(p)) = projectName)
      taskIDs == GetTargetTaskIDs(w, order)
  IN IF Len(args) = 0
       THEN R([w EXCEPT !.statusMsg = <<"Usage: project">>], NoCmd)
     ELSE IF found = <<>>
       THEN R([w EXCEPT !.statusMsg = <<"Project not found", projectName>>], NoCmd)
     ELSE IF Len(taskIDs) = 0
       THEN R([w EXCEPT !.statusMsg = <<"No task selected">>], NoCmd)
     ELSE R(w, MoveToProjectCmd(taskIDs, found[1]))

\* cmdRecolorProjects and cmdRecolorTags: the colours are not modelled, the
\* command and its taskUpdatedMsg are
CmdRecolorProjects(w) ==
  IF Len(w.projects) = 0
    THEN R([w EXCEPT !.statusMsg = <<"No projects to recolor">>], NoCmd)
    ELSE R(w, Cmd("recolor"))

CmdRecolorTags(w) ==
  IF Len(w.tags) = 0
    THEN R([w EXCEPT !.statusMsg = <<"No tags to recolor">>], NoCmd)
    ELSE R(w, Cmd("recolor"))

\* cmdListProjects and cmdListTags
CmdListProjects(w) ==
  R([w EXCEPT !.statusMsg = IF Len(w.projects) = 0 THEN <<"No projects">>
                            ELSE <<"Projects", w.projects>>], NoCmd)

CmdListTags(w) ==
  R([w EXCEPT !.statusMsg = IF Len(w.tags) = 0 THEN <<"No tags">>
                            ELSE <<"Tags", w.tags>>], NoCmd)

\* cmdStopTime
CmdStopTime(w) ==
  IF w.activeTimeEntryID = NoId
    THEN R([w EXCEPT !.statusMsg = <<"No active time tracking">>], NoCmd)
    ELSE R([w EXCEPT !.activeTimeEntryID = NoId, !.activeTaskID = NoId],
           Cmd("stopTime"))

\* cmdStartTime: the view returned by the v.cmdStopTime() it calls first is
\* dropped (value receiver), so that call changes nothing
CmdStartTime(w, order) ==
  LET taskIDs == GetTargetTaskIDs(w, order)
  IN IF Len(taskIDs) = 0
       THEN R([w EXCEPT !.statusMsg = <<"No task selected to track time">>], NoCmd)
       ELSE R([w EXCEPT !.activeTimeEntryID = taskIDs[1],
                        !.activeTaskID = taskIDs[1]],
              [Cmd("startTime") EXCEPT !.id = taskIDs[1]])

\* The command lines whose handling is modelled: every verb without
\* arguments, and with arguments the verbs priority, project, filter and sort.
\* (due, tag, newproject, newtag, theme and addtime with arguments parse dates
\* and durations or write the projects and tags tables.)
CommandModelled(command) ==
  LET parts == Fields(command)
  IN Len(parts) > 1 =>
       ~(ToLower(parts[1]) \in {<<"d", "u", "e">>, <<"d">>, <<"t", "a", "g">>, <<"t">>,
                                <<"n", "e", "w", "p", "r", "o", "j", "e", "c", "t">>, <<"n", "p">>, <<"a", "d", "d", "p", "r", "o", "j", "e", "c", "t">>,
                                <<"n", "e", "w", "t", "a", "g">>, <<"n", "t">>, <<"a", "d", "d", "t", "a", "g">>,
                                <<"t", "h", "e", "m", "e">>, <<"a", "d", "d", "t", "i", "m", "e">>, <<"l", "o", "g", "t", "i", "m", "e">>})

\* executeCommand
ExecuteCommand(w, command, order, now) ==
  LET parts == Fields(command)
      cmd == ToLower(parts[1])
      args == Tail(parts)
      usage(text) == R([w EXCEPT !.statusMsg = <<text>>], NoCmd)
  IN IF Len(parts) = 0 THEN R(w, NoCmd)
     ELSE CASE cmd \in {<<"d", "u", "e">>, <<"d">>} -> usage("Usage: due")
            [] cmd \in {<<"p", "r", "i", "o", "r", "i", "t", "y">>, <<"p", "r", "i">>, <<"p">>} -> CmdSetPriority(w, args, order)
            [] cmd \in {<<"t", "a", "g">>, <<"t">>} -> usage("Usage: tag")
            [] cmd \in {<<"p", "r", "o", "j", "e", "c", "t">>, <<"p", "r", "o", "j">>, <<"m", "v">>} -> CmdMoveToProject(w, args, order)
            [] cmd \in {<<"p", "a", "r", "e", "n", "t">>, <<"s", "e", "t", "p", "a", "r", "e", "n", "t">>} -> CmdSetParent(w)
            [] cmd \in {<<"n", "e", "w", "p", "r", "o", "j", "e", "c", "t">>, <<"n", "p">>, <<"a", "d", "d", "p", "r", "o", "j", "e", "c", "t">>} -> usage("Usage: newproject")
            [] cmd = <<"r", "e", "c", "o", "l", "o", "r">> -> CmdRecolorProjects(w)
            [] cmd \in {<<"n", "e", "w", "t", "a", "g">>, <<"n", "t">>, <<"a", "d", "d", "t", "a", "g">>} -> usage("Usage: newtag")
            [] cmd = <<"r", "e", "c", "o", "l", "o", "r", "t", "a", "g", "s">> -> CmdRecolorTags(w)
            [] cmd \in {<<"p", "r", "o", "j", "e", "c", "t", "s">>, <<"l", "s", "p">>} -> CmdListProjects(w)
            [] cmd \in {<<"t", "a", "g", "s">>, <<"l", "s", "t">>} -> CmdListTags(w)
            [] cmd \in {<<"a", "r", "c", "h", "i", "v", "e">>, <<"a", "r", "c", "h">>} -> CmdArchive(w, order)
            [] cmd \in {<<"d", "o", "n", "e">>, <<"c", "o", "m", "p", "l", "e", "t", "e">>} -> CmdToggleDone(w)
            [] cmd = <<"t", "h", "e", "m", "e">> -> usage("Usage: theme")
            [] cmd \in {<<"s", "t", "a", "r", "t", "t", "i", "m", "e">>, <<"s", "t", "a", "r", "t">>, <<"t", "r", "a", "c", "k">>} -> CmdStartTime(w, order)
            [] cmd \in {<<"s", "t", "o", "p", "t", "i", "m", "e">>, <<"s", "t", "o", "p">>} -> CmdStopTime(w)
            [] cmd \in {<<"a", "d", "d", "t", "i", "m", "e">>, <<"l", "o", "g", "t", "i", "m", "e">>} -> usage("Usage: addtime")
            [] cmd \in {<<"h", "e", "l", "p">>, <<"h">>, <<"?">>} -> usage("Commands")
            [] cmd \in {<<"f", "i", "l", "t", "e", "r">>, <<"f">>} -> CmdFilter(w, args, now)
            [] cmd \in {<<"f", "i", "l", "t", "e", "r", "p", "r", "o", "j", "e", "c", "t">>, <<"f", "p">>} -> CmdFilterProject(w)
            [] cmd \in {<<"f", "i", "l", "t", "e", "r", "t", "a", "g">>, <<"f", "t">>} -> CmdFilterTag(w)
            [] cmd = <<"c", "l", "e", "a", "r">> -> CmdClearFilters(w, now)
            [] cmd = <<"s", "o", "r", "t">> -> CmdSort(w, args)
            [] OTHER -> R([w EXCEPT !.statusMsg = <<"Unknown command", cmd>>], NoCmd)

\* the command line Enter executes: the typed text, its verb replaced by the
\* selected suggestion when suggestions are showing
CommandLine(w) ==
  LET command == TrimSpace(w.input)
      name == AllCommands[w.cmdSuggestions[w.cmdCursor + 1]].Name
  IN IF Len(w.cmdSuggestions) > 0 /\ w.cmdCursor < Len(w.cmdSuggestions)
       THEN IF ~Contains(command, <<" ">>) THEN name
            ELSE name \o <<" ">>
                 \o SubSeq(command, FirstSpace(command) + 1, Len(command))
       ELSE command

\* handleCommandMode with an Enter that executes the line without leaving
\* Command mode
HandleCommandModeStays(w, key, order, now) ==
  LET left == [w EXCEPT !.mode = "normal", !.cmdSuggestions = <<>>,
                        !.cmdCursor = 0]
  IN CASE key = "enter" ->
            IF CommandLine(w) # <<>>
              THEN ExecuteCommand(w, CommandLine(w), order, now)
              ELSE R(left, NoCmd)
       [] key = "esc" -> R(left, NoCmd)
       [] key \in {"down", "ctrl+n"} ->
            R(IF w.cmdCursor < Len(w.cmdSuggestions) - 1
                THEN [w EXCEPT !.cmdCursor = @ + 1] ELSE w, NoCmd)
       [] OTHER -> R(w, NoCmd)

\* handleCommandMode
HandleCommandMode(w, key, order, now) ==
  LET left == [w EXCEPT !.mode = "normal", !.cmdSuggestions = <<>>,
                        !.cmdCursor = 0]
      sel == AllCommands[w.cmdSuggestions[w.cmdCursor + 1]]
  IN CASE key = "enter" ->
            IF CommandLine(w) # <<>>
              THEN ExecuteCommand(left, CommandLine(w), order, now)
              ELSE R(left, NoCmd)
       [] key = "esc" -> R(left, NoCmd)
       [] key = "tab" ->
            IF Len(w.cmdSuggestions) > 0 /\ w.cmdCursor < Len(w.cmdSuggestions)
              THEN R(UpdateCommandSuggestions(
                       [w EXCEPT !.input = IF sel.HasArgs THEN sel.Name \o <<" ">>
                                           ELSE sel.Name]), NoCmd)
              ELSE R(w, NoCmd)
       [] key \in {"up", "ctrl+p"} ->
            R(IF w.cmdCursor > 0 THEN [w EXCEPT !.cmdCursor = @ - 1] ELSE w, NoCmd)
       [] key \in {"down", "ctrl+n"} ->
            R(IF w.cmdCursor < Len(w.cmdSuggestions) - 1
                THEN [w EXCEPT !.cmdCursor = @ + 1] ELSE w, NoCmd)
       [] OTHER ->
            R(UpdateCommandSuggestions([w EXCEPT !.input = InputUpdate(@, key)]),
              NoCmd)

\* -------------------------------------------------------------- input modes

CreateTaskCmd(w, title) ==
  [Cmd("createTask") EXCEPT !.title = title, !.projectID = w.filterProjectID,
                            !.tagIDs = w.filterTagIDs]

CreateSubtaskCmd(title, parentID) ==
  [Cmd("createSubtask") EXCEPT !.title = title, !.parentID = parentID]

UpdateTaskTitleCmd(id, title) ==
  [Cmd("updateTaskTitle") EXCEPT !.id = id, !.title = title]

DeleteTasksCmd(ids) == [Cmd("deleteTasks") EXCEPT !.ids = ids]

\* handleAddMode
HandleAddMode(w, key) ==
  LET title == TrimSpace(w.input)
  IN IF key = "enter" /\ title # <<>>
       THEN R([w EXCEPT !.mode = "normal"], CreateTaskCmd(w, title))
     ELSE IF key = "esc" THEN R([w EXCEPT !.mode = "normal"], NoCmd)
     ELSE R([w EXCEPT !.input = InputUpdate(@, key)], NoCmd)

\* handleAddSubtaskMode
HandleAddSubtaskMode(w, key) ==
  LET title == TrimSpace(w.input)
  IN IF key = "enter" /\ title # <<>>
       THEN R([w EXCEPT !.mode = "normal"], CreateSubtaskCmd(title, w.parentID))
     ELSE IF key = "esc"
       THEN R([w EXCEPT !.mode = "normal", !.parentID = NoId], NoCmd)
     ELSE R([w EXCEPT !.input = InputUpdate(@, key)], NoCmd)

\* handleEditMode
HandleEditMode(w, key) ==
  LET title == TrimSpace(w.input)
      old == w.editingOldTask
      recorded ==
        IF title # old.Title
          THEN PushUndo(w, UndoAction("update", w.editingID, NoTask, old,
                                      [old EXCEPT !.Title = title]))
          ELSE w
  IN IF key = "enter" /\ title # <<>> /\ old # NoTask
       THEN R([recorded EXCEPT !.mode = "normal", !.editingOldTask = NoTask],
              UpdateTaskTitleCmd(w.editingID, title))
     ELSE IF key = "esc"
       THEN R([w EXCEPT !.mode = "normal", !.editingOldTask = NoTask], NoCmd)
     ELSE R([w EXCEPT !.input = InputUpdate(@, key)], NoCmd)

\* handleSearchMode
HandleSearchMode(w, key, now) ==
  IF key = "enter"
    THEN R(ApplyFilter([w EXCEPT !.searchFilter = TrimSpace(w.input),
                                 !.mode = "normal"], now), NoCmd)
  ELSE IF key = "esc"
    THEN R([w EXCEPT !.mode = "normal", !.input = w.searchFilter], NoCmd)
  ELSE R(ApplyFilter([w EXCEPT !.input = InputUpdate(@, key),
                               !.searchFilter = InputUpdate(w.input, key)], now),
         NoCmd)

\* the undo records handleDeleteConfirm pushes: one for each id of deleteIDs
\* that is in v.tasks
RECURSIVE DeleteRecords(_, _)
DeleteRecords(w, ids) ==
  IF ids = <<>> THEN <<>>
  ELSE (IF FindTask(w.tasks, Head(ids)) # NoTask
          THEN <<UndoAction("delete", Head(ids), FindTask(w.tasks, Head(ids)),
                            NoTask, NoTask)>>
          ELSE <<>>)
       \o DeleteRecords(w, Tail(ids))

\* handleDeleteConfirm
HandleDeleteConfirm(w, key) ==
  IF key \in {"y", "Y"}
    THEN R([PushUndoAll(w, DeleteRecords(w, w.deleteIDs)) EXCEPT !.mode = "normal"],
           DeleteTasksCmd(w.deleteIDs))
  ELSE IF key \in {"n", "N", "esc"}
    THEN R([w EXCEPT !.mode = "normal", !.deleteIDs = <<>>], NoCmd)
  ELSE R(w, NoCmd)

\* -------------------------------------------------------------- normal mode

\* The height of the window (tea.WindowSizeMsg), in lines.
Height == 8

\* visibleTaskCount
VisibleTaskCount == Max2(1, Height - 4)

\* pageSize of "pgup" and "pgdown": half of what the window shows
PageSize == Max2(1, VisibleTaskCount \div 2)

\* the moves of "up"/"k", "down"/"j", "g" and "G": the cursor moves to c, then
\* checkDeferredResort(oldCursor)
MoveCursor(w, c) ==
  CheckDeferredResort([w EXCEPT !.cursor = c], w.cursor)

\* key tab: the tasks whose toggle is recorded, in the order of the range
\* over v.selected, each looked up in v.tasks
RECURSIVE SelectedVisible(_, _)
SelectedVisible(w, order) ==
  IF order = <<>> THEN <<>>
  ELSE (IF FindTask(w.tasks, Head(order)) # NoTask
          THEN <<FindTask(w.tasks, Head(order))>> ELSE <<>>)
       \o SelectedVisible(w, Tail(order))

ToggleRecord(task, now) ==
  UndoAction("toggleStatus", task.ID, NoTask, task,
    IF task.Status = "done"
      THEN [task EXCEPT !.Status = "pending", !.CompletedAt = NoTime]
      ELSE [task EXCEPT !.Status = "done", !.CompletedAt = now])

KeyTab(w, order, now) ==
  LET targetTasks ==
        IF Len(order) > 0 THEN SelectedVisible(w, order)
        ELSE IF Len(w.tasks) > 0 THEN <<CursorTask(w)>>
        ELSE <<>>
      records == [k \in DOMAIN targetTasks |-> ToggleRecord(targetTasks[k], now)]
      w1 == PushUndoAll(w, records)
  IN R(w1, Closure("toggleSelected", w1))

\* key d
KeyDelete(w, order) ==
  LET ids == IF Len(order) > 0 THEN order
             ELSE IF Len(w.tasks) > 0 THEN <<CursorTask(w).ID>>
             ELSE w.deleteIDs
  IN R([w EXCEPT !.deleteIDs = ids,
                 !.mode = IF Len(ids) > 0 THEN "confirmDelete" ELSE @], NoCmd)

\* key p
KeyPriority(w) ==
  LET task == CursorTask(w)
      w1 == IF Len(w.tasks) > 0
              THEN PushUndo(w, UndoAction("update", task.ID, NoTask, task,
                     [task EXCEPT !.Priority = NextPriority(task.Priority)]))
              ELSE w
  IN R(w1, Closure("cyclePriority", w1))

\* key esc: selection, then filters, then expansion
KeyEsc(w, now) ==
  IF w.selected # {}
    THEN R([w EXCEPT !.selected = {}, !.newSelectedMap = TRUE], NoCmd)
  ELSE IF HasActiveFilters(w)
    THEN R(ApplyFilter([w EXCEPT !.searchFilter = <<>>, !.filterProjectID = NoId,
                                 !.filterTagIDs = <<>>], now), NoCmd)
  ELSE IF DOMAIN w.expanded # {}
    THEN R(ApplyFilter([w EXCEPT !.expanded = <<>>], now), NoCmd)
  ELSE R(w, NoCmd)

\* key P
KeySetParent(w) ==
  IF Len(w.tasks) = 0 THEN R(w, NoCmd)
  ELSE IF Len(CursorTask(w).Subtasks) > 0
    THEN R([w EXCEPT !.statusMsg =
              <<"Cannot make a task with subtasks into a subtask">>], NoCmd)
  ELSE IF Len(GetParentCandidates(w, CursorTask(w).ID)) = 0
    THEN R([w EXCEPT !.parentCandidates = <<>>,
                     !.statusMsg = <<"No valid parent tasks available">>], NoCmd)
  ELSE R([w EXCEPT !.parentCandidates = GetParentCandidates(w, CursorTask(w).ID),
                   !.selectingParent = TRUE,
                   !.parentTaskID = CursorTask(w).ID,
                   !.selectorCursor = 0,
                   !.selectorSearch = <<>>], NoCmd)

\* key s: the parent is marked expanded, and applyFilter is not called
KeyAddSubtask(w) ==
  IF Len(w.tasks) = 0 THEN R(w, NoCmd)
  ELSE IF CursorTask(w).ParentID # NoId
    THEN R([w EXCEPT !.statusMsg = <<"Cannot create nested subtasks">>], NoCmd)
  ELSE R([SetExpanded(w, CursorTask(w).ID, TRUE) EXCEPT
            !.mode = "addSubtask", !.parentID = CursorTask(w).ID,
            !.input = <<>>], NoCmd)

\* key b: depTasks is emptied before it is rebuilt
KeyDependencies(w) ==
  LET task == CursorTask(w)
      others == SelectSeq(w.allTasks, LAMBDA t : t.ID # task.ID /\ t.ParentID = NoId)
  IN IF Len(w.tasks) = 0 THEN R(w, NoCmd)
     ELSE IF task.ParentID # NoId
       THEN R([w EXCEPT !.statusMsg = <<"Subtasks cannot have dependencies">>], NoCmd)
     ELSE IF Len(others) = 0
       THEN R([w EXCEPT !.depTasks = <<>>,
                        !.statusMsg = <<"No other tasks to depend on">>], NoCmd)
     ELSE R([w EXCEPT !.depTasks = others, !.selectingDep = TRUE,
                      !.depTaskID = task.ID, !.selectorCursor = 0], NoCmd)

\* key o
KeyToggleExpand(w, now) ==
  LET task == CursorTask(w)
  IN IF Len(w.tasks) = 0 THEN R(w, NoCmd)
     ELSE IF task.ParentID = NoId /\ Len(task.Subtasks) > 0
       THEN R(ApplyFilter(SetExpanded(w, task.ID, ~IsExpanded(w, task.ID)), now),
              NoCmd)
     ELSE IF Len(task.Subtasks) = 0 /\ task.ParentID = NoId
       THEN R([w EXCEPT !.statusMsg = <<"No subtasks to expand">>], NoCmd)
     ELSE R(w, NoCmd)

\* key E
KeyExpandAll(w, now) ==
  LET parents == {w.allTasks[k].ID :
                    k \in {j \in DOMAIN w.allTasks : Len(w.allTasks[j].Subtasks) > 0}}
      count == Cardinality({j \in DOMAIN w.allTasks : Len(w.allTasks[j].Subtasks) > 0})
      w1 == [w EXCEPT !.expanded =
               [id \in (DOMAIN w.expanded) \cup parents |->
                  IF id \in parents THEN TRUE ELSE w.expanded[id]]]
  IN IF count > 0
       THEN R([ApplyFilter(w1, now) EXCEPT !.statusMsg = <<"Expanded", count>>], NoCmd)
       ELSE R([w EXCEPT !.statusMsg = <<"No tasks with subtasks">>], NoCmd)

\* key C
KeyCollapseAll(w, now) ==
  IF DOMAIN w.expanded # {}
    THEN R([ApplyFilter([w EXCEPT !.expanded = <<>>], now) EXCEPT
              !.statusMsg = <<"Collapsed", Cardinality(DOMAIN w.expanded)>>], NoCmd)
    ELSE R([w EXCEPT !.statusMsg = <<"Nothing to collapse">>], NoCmd)

\* key H
KeyCycleViewMode(w, now) ==
  LET mode == CASE w.viewMode = "all" -> "active"
                [] w.viewMode = "active" -> "recent"
                [] w.viewMode = "recent" -> "all"
                [] OTHER -> w.viewMode
  IN R([ApplyFilter([w EXCEPT !.viewMode = mode], now) EXCEPT
          !.statusMsg = <<"View", mode>>], NoCmd)

\* key A
KeyToggleActive(w, now) ==
  IF w.viewMode = "active"
    THEN R(ApplyFilter([w EXCEPT !.viewMode = "all",
                                 !.statusMsg = <<"View: All tasks">>], now), NoCmd)
    ELSE R(ApplyFilter([w EXCEPT !.viewMode = "active",
                                 !.statusMsg = <<"View: Active tasks only">>], now),
           NoCmd)

\* handleNormalMode.  textinput.Blink, returned with the modes that open the
\* text input, only blinks the caret and is no command here.  The keys pgup,
\* pgdown (which move by the window height), f and w are not in the key
\* alphabet of the model.
HandleNormalMode(v0, key, order, now) ==
  LET w == [v0 EXCEPT !.statusMsg = <<>>]
  IN IF w.selectingProject THEN HandleProjectSelector(w, key)
     ELSE IF w.selectingTag THEN HandleTagSelector(w, key)
     ELSE IF w.selectingDep THEN HandleDependencySelector(w, key)
     ELSE IF w.selectingProjectFilter THEN HandleProjectFilterSelector(w, key, now)
     ELSE IF w.selectingTagFilter THEN HandleTagFilterSelector(w, key, now)
     ELSE IF w.selectingParent THEN HandleParentSelector(w, key)
     ELSE
       CASE key \in {"up", "k"} ->
              IF w.cursor > 0 THEN MoveCursor(w, w.cursor - 1) ELSE R(w, NoCmd)
         [] key \in {"down", "j"} ->
              IF w.cursor < Len(w.tasks) - 1 THEN MoveCursor(w, w.cursor + 1)
              ELSE R(w, NoCmd)
         [] key = "g" -> MoveCursor(w, 0)
         [] key = "G" -> MoveCursor(w, Max2(0, Len(w.tasks) - 1))
         [] key \in {"pgup", "ctrl+u"} ->
              IF Len(w.tasks) > 0
                THEN MoveCursor(w, Max2(0, w.cursor - PageSize))
              ELSE R(w, NoCmd)
         [] key \in {"pgdown", "ctrl+d"} ->
              IF Len(w.tasks) > 0
                THEN MoveCursor(w, IF w.cursor + PageSize >= Len(w.tasks)
                                     THEN Len(w.tasks) - 1
                                     ELSE w.cursor + PageSize)
              ELSE R(w, NoCmd)
         [] key = " " ->
              IF Len(w.tasks) > 0
                THEN R([w EXCEPT !.selected =
                          IF CursorTask(w).ID \in @ THEN @ \ {CursorTask(w).ID}
                          ELSE @ \cup {CursorTask(w).ID}], NoCmd)
                ELSE R(w, NoCmd)
         [] key = "V" ->
              R([w EXCEPT !.selected = @ \cup {w.tasks[k].ID : k \in DOMAIN w.tasks}],
                NoCmd)
         [] key = "esc" -> KeyEsc(w, now)
         [] key = "a" -> R([w EXCEPT !.mode = "add", !.input = <<>>], NoCmd)
         [] key = "enter" ->
              IF Len(w.tasks) > 0
                THEN R([w EXCEPT !.mode = "edit", !.editingID = CursorTask(w).ID,
                                 !.editingOldTask = CursorTask(w),
                                 !.input = CursorTask(w).Title], NoCmd)
                ELSE R(w, NoCmd)
         [] key = "tab" -> KeyTab(w, order, now)
         [] key = "d" -> KeyDelete(w, order)
         [] key = "p" -> KeyPriority(w)
         [] key = "/" -> R([w EXCEPT !.mode = "search", !.input = w.searchFilter], NoCmd)
         [] key = ":" ->
              R([w EXCEPT !.mode = "command", !.input = <<>>,
                          !.cmdSuggestions = [i \in DOMAIN AllCommands |-> i],
                          !.cmdCursor = 0], NoCmd)
         [] key = "m" ->
              IF Len(w.tasks) > 0 /\ Len(w.projects) > 0
                THEN R([w EXCEPT !.selectingProject = TRUE, !.selectorCursor = 0], NoCmd)
                ELSE R(w, NoCmd)
         [] key = "t" ->
              IF Len(w.tasks) > 0 /\ Len(w.tags) > 0
                THEN R([w EXCEPT !.selectingTag = TRUE, !.selectorCursor = 0], NoCmd)
              ELSE IF Len(w.tags) = 0
                THEN R([w EXCEPT !.statusMsg = <<"No tags yet">>], NoCmd)
              ELSE R(w, NoCmd)
         [] key = "M" ->
              IF Len(w.projects) > 0
                THEN R([w EXCEPT !.selectingProjectFilter = TRUE,
                                 !.selectorCursor = 0, !.selectorSearch = <<>>], NoCmd)
                ELSE R([w EXCEPT !.statusMsg = <<"No projects yet">>], NoCmd)
         [] key = "T" ->
              IF Len(w.tags) > 0
                THEN R([w EXCEPT !.selectingTagFilter = TRUE,
                                 !.selectorCursor = 0, !.selectorSearch = <<>>], NoCmd)
                ELSE R([w EXCEPT !.statusMsg = <<"No tags yet">>], NoCmd)
         [] key = "P" -> KeySetParent(w)
         [] key = "s" -> KeyAddSubtask(w)
         [] key = "o" -> KeyToggleExpand(w, now)
         [] key = "E" -> KeyExpandAll(w, now)
         [] key = "C" -> KeyCollapseAll(w, now)
         [] key = "b" -> KeyDependencies(w)
         [] key = "r" -> R(w, Cmd("loadTasks"))
         [] key = "H" -> KeyCycleViewMode(w, now)
         [] key = "A" -> KeyToggleActive(w, now)
         [] key = "ctrl+z" -> Undo(w)
         [] key \in {"ctrl+y", "ctrl+shift+z"} -> Redo(w)
         [] OTHER -> R(w, NoCmd)

\* ------------------------------------------------------------------- Update

\* case tasksLoadedMsg with the fields assigned before msg.err is looked at
HandleTasksLoadedEagerly(w, msg, now) ==
  LET w1 == ApplyFilter([w EXCEPT !.allTasks = msg.tasks,
                                  !.projects = msg.projects,
                                  !.tags = msg.tags,
                                  !.blocked = msg.blocked], now)
  IN IF msg.err
       THEN R([w1 EXCEPT !.statusMsg = <<"Error loading tasks">>], Cmd("error"))
       ELSE R(ClampCursor([w1 EXCEPT !.statusMsg = <<"Loaded", Len(w1.tasks)>>,
                                     !.focusAfterLoadTaskID = NoId]), NoCmd)

\* case tasksLoadedMsg
HandleTasksLoaded(w, msg, now) ==
  LET w1 == ApplyFilter([w EXCEPT !.allTasks = msg.tasks,
                                  !.projects = msg.projects,
                                  !.tags = msg.tags,
                                  !.blocked = msg.blocked], now)
      w2 == [w1 EXCEPT !.statusMsg = <<"Loaded", Len(w1.tasks)>>]
      focus == w2.focusAfterLoadTaskID
      at == CHOOSE i \in DOMAIN w2.tasks :
              w2.tasks[i].ID = focus /\ \A j \in 1..(i - 1) : w2.tasks[j].ID # focus
  IN IF msg.err
       THEN R([w EXCEPT !.statusMsg = <<"Error loading tasks">>], Cmd("error"))
     ELSE IF focus # NoId
       THEN IF \E i \in DOMAIN w2.tasks : w2.tasks[i].ID = focus
              THEN R([w2 EXCEPT !.cursor = at - 1, !.deferResortTaskID = focus,
                                !.focusAfterLoadTaskID = NoId], NoCmd)
              ELSE R([w2 EXCEPT !.focusAfterLoadTaskID = NoId], NoCmd)
     ELSE R(ClampCursor(w2), NoCmd)

\* Update for a message that is not a key
HandleMessage(w, msg, now) ==
  CASE msg.kind = "tasksLoaded" -> HandleTasksLoaded(w, msg, now)
    [] msg.kind = "taskCreated" ->
         IF msg.err THEN R(w, Cmd("error"))
         ELSE R([PushUndo(w, UndoAction("create", msg.task.ID, msg.task,
                                        NoTask, NoTask))
                   EXCEPT !.focusAfterLoadTaskID = msg.task.ID], Cmd("loadTasks"))
    [] msg.kind = "taskUpdated" ->
         IF msg.err THEN R(w, Cmd("error")) ELSE R(w, Cmd("loadTasks"))
    [] msg.kind = "taskDeleted" ->
         IF msg.err THEN R(w, Cmd("error"))
         ELSE R([w EXCEPT !.selected = {}, !.newSelectedMap = TRUE],
                Cmd("loadTasks"))
    [] msg.kind = "priorityChangedLocal" ->
         IF msg.err THEN R(w, Cmd("error"))
         ELSE R([UpdateLocalTaskPriority(w, msg.taskID, msg.newPriority) EXCEPT
                   !.deferResortTaskID = msg.taskID,
                   !.statusMsg = <<"Priority", msg.newPriority>>], NoCmd)
    [] msg.kind = "timeTrackingStarted" ->
         R([w EXCEPT !.statusMsg = <<"Started tracking">>], NoCmd)
    [] msg.kind = "timeTrackingStopped" ->
         R([w EXCEPT !.statusMsg = <<"Stopped tracking">>], NoCmd)
    [] OTHER -> R(w, NoCmd)

\* an Update that lets p and Space through to the Normal-mode keymap in
\* every mode
HandleKeyNormalFirst(w, key, order, now) ==
  IF key \in {"p", " "} \/ w.mode = "normal"
    THEN HandleNormalMode(w, key, order, now)
  ELSE CASE w.mode = "add" -> HandleAddMode(w, key)
         [] w.mode = "addSubtask" -> HandleAddSubtaskMode(w, key)
         [] w.mode = "edit" -> HandleEditMode(w, key)
         [] w.mode = "search" -> HandleSearchMode(w, key, now)
         [] w.mode = "command" -> HandleCommandMode(w, key, order, now)
         [] OTHER -> HandleDeleteConfirm(w, key)

\* Update for a tea.KeyMsg: the switch on v.mode
HandleKey(w, key, order, now) ==
  CASE w.mode = "add" -> HandleAddMode(w, key)
    [] w.mode = "addSubtask" -> HandleAddSubtaskMode(w, key)
    [] w.mode = "edit" -> HandleEditMode(w, key)
    [] w.mode = "search" -> HandleSearchMode(w, key, now)
    [] w.mode = "command" -> HandleCommandMode(w, key, order, now)
    [] w.mode = "confirmDelete" -> HandleDeleteConfirm(w, key)
    [] OTHER -> HandleNormalMode(w, key, order, now)

\* --------------------------------------------------------------- root model

\* IsInputMode without the test of the selector flags
IsInputModeByMode(w) ==
  w.mode \in {"add", "edit", "addSubtask", "search", "command", "confirmDelete"}

\* IsInputMode: what the list view publishes to the root model
IsInputMode(w) ==
  \/ w.mode \in {"add", "edit", "addSubtask", "search", "command"}
  \/ w.selectingProject \/ w.selectingTag \/ w.selectingDep
  \/ w.selectingProjectFilter \/ w.selectingTagFilter \/ w.selectingParent
  \/ w.mode = "confirmDelete"

\* the keys of the Quit binding of DefaultKeyMap
QuitKeys == {"q", "ctrl+c"}

\* tea.Quit
Quit == Cmd("quit")

\* the root Update that lets q end the program whatever the view is doing
RootUpdateQuitAlways(w, key, order, now) ==
  IF key \in QuitKeys THEN R(w, Quit) ELSE HandleKey(w, key, order, now)

\* RootModel.Update for a tea.KeyMsg while the list is the current view: the
\* global keys, then the delegation to ListView.Update.  The keys 2 to 8,
\* which show the other views, are not in the key alphabet of the model.
RootUpdate(w, key, order, now) ==
  IF key \in QuitKeys /\ (key = "ctrl+c" \/ ~IsInputMode(w)) THEN R(w, Quit)
  ELSE IF key = "ctrl+t" THEN R(w, NoCmd)
  ELSE IF ~IsInputMode(w) /\ key = "?" THEN R(w, NoCmd)
  ELSE IF ~IsInputMode(w) /\ key = "1" THEN R(w, Cmd("loadTasks"))
  ELSE HandleKey(w, key, order, now)

\* ------------------------------------------------------------ store writes

\* the tasks removed by DELETE FROM tasks WHERE id IN S: the rows and, through
\* ON DELETE CASCADE on parent_id, every row below them
RECURSIVE Cascade(_, _)
Cascade(d, S) ==
  LET more == {i \in DOMAIN d.tasks : d.tasks[i].parent \in S} \ S
  IN IF more = {} THEN S ELSE Cascade(d, S \cup more)

\* DELETE FROM tasks WHERE id = ? (task_tags and task_dependencies cascade)
DbDelete(d, id) ==
  LET gone == Cascade(d, {id} \cap DOMAIN d.tasks)
  IN [d EXCEPT
        !.tasks = [i \in (DOMAIN d.tasks) \ gone |-> d.tasks[i]],
        !.taskTags = {p \in d.taskTags : p[1] \notin gone},
        !.deps = {p \in d.deps : p[1] \notin gone /\ p[2] \notin gone}]

\* the foreign key of parent_id (PRAGMA foreign_keys = ON)
ParentExists(d, parent) == parent = NoId \/ parent \in DOMAIN d.tasks

\* INSERT INTO tasks: TRUE when the primary key and the foreign key allow it
CanInsert(d, id, row) == id \notin DOMAIN d.tasks /\ ParentExists(d, row.parent)

DbInsert(d, id, row) ==
  [d EXCEPT !.tasks = [i \in (DOMAIN d.tasks) \cup {id} |->
                         IF i = id THEN row ELSE d.tasks[i]]]

\* UPDATE tasks SET ... WHERE id = ?: no row, no change
DbUpdate(d, id, row) ==
  IF id \in DOMAIN d.tasks THEN [d EXCEPT !.tasks[id] = row] ELSE d

\* the row a restore writes for a task snapshot
SnapshotRow(task, created, position) ==
  [title |-> task.Title, status |-> task.Status, priority |-> task.Priority,
   project |-> task.ProjectID, parent |-> task.ParentID,
   completed |-> task.CompletedAt, position |-> position,
   created |-> created, due |-> task.DueDate]

\* the model.Task createTask and createSubtask put in taskCreatedMsg
CreatedTask(id, title, project, parent, now) ==
  [ID |-> id, Title |-> title, Status |-> "pending", Priority |-> "medium",
   ProjectID |-> project, ParentID |-> parent, CompletedAt |-> NoTime,
   DueDate |-> NoTime, Position |-> 0, CreatedAt |-> now,
   Tags |-> <<>>, Subtasks |-> <<>>, Dependencies |-> {}]

\* one pass of toggleSelected's loop: SELECT status (an absent row leaves ""),
\* then UPDATE status and completed_at together
ToggleOne(d, id, now) ==
  IF id \notin DOMAIN d.tasks THEN d
  ELSE IF d.tasks[id].status = "done"
    THEN [d EXCEPT !.tasks[id].status = "pending", !.tasks[id].completed = NoTime]
    ELSE [d EXCEPT !.tasks[id].status = "done", !.tasks[id].completed = now]

\* the statement a command runs for one id of its list
Statement(d, c, id) ==
  CASE c.kind = "deleteTasks" -> DbDelete(d, id)
    [] c.kind = "archiveTasks" ->
         IF id \in DOMAIN d.tasks THEN [d EXCEPT !.tasks[id].status = "archived"] ELSE d
    [] c.kind = "setPriority" ->
         IF id \in DOMAIN d.tasks THEN [d EXCEPT !.tasks[id].priority = c.priority] ELSE d
    [] c.kind = "moveToProject" ->
         IF id \in DOMAIN d.tasks THEN [d EXCEPT !.tasks[id].project = c.projectID] ELSE d
    [] OTHER -> d

\* the loop "for _, id := range ids" of deleteTasks, archiveTasks, setPriority
\* and moveToProject, stopped by a failure of statement failAt (0: none fails)
RECURSIVE ForEachID(_, _, _, _)
ForEachID(d, c, ids, failAt) ==
  IF ids = <<>> \/ failAt = 1 THEN d
  ELSE ForEachID(Statement(d, c, Head(ids)), c, Tail(ids),
                 IF failAt = 0 THEN 0 ELSE failAt - 1)

RECURSIVE ToggleAll(_, _, _)
ToggleAll(d, ids, now) ==
  IF ids = <<>> THEN d ELSE ToggleAll(ToggleOne(d, Head(ids), now), Tail(ids), now)

NoMsg == Msg("none")

\* What a command does when the runtime runs it: the store it leaves and the
\* message it returns.  tasks and order are the v.tasks the closure sees and
\* the order in which its range over v.selected runs; failAt numbers the
\* statement that fails (0: none); id is uuid.New().
RunCommand(d, c, tasks, order, now, id, failAt) ==
  LET out(d1, m) == [db |-> d1, msg |-> m]
      reply(kind) == IF failAt > 0 THEN ErrMsg(kind) ELSE Msg(kind)
      parentProject == IF c.parentID \in DOMAIN d.tasks
                         THEN d.tasks[c.parentID].project ELSE NoId
      toggleIDs == IF Len(order) > 0 THEN order
                   ELSE IF Len(tasks) > 0 THEN <<tasks[c.capCursor + 1].ID>>
                   ELSE <<>>
  IN CASE c.kind = "loadTasks" ->
            out(d, IF failAt > 0 THEN ErrMsg("tasksLoaded") ELSE LoadTasksOk(d))
       [] c.kind = "createTask" ->
            IF failAt > 0 THEN out(d, ErrMsg("taskCreated"))
            ELSE out([DbInsert(d, id, Row(c.title, "pending", "medium", c.projectID,
                                          NoId, NoTime, NoPos, now))
                        EXCEPT !.taskTags = @ \cup {<<id, c.tagIDs[k]>> : k \in DOMAIN c.tagIDs}],
                     [Msg("taskCreated") EXCEPT
                        !.task = CreatedTask(id, c.title, c.projectID, NoId, now)])
       [] c.kind = "createSubtask" ->
            IF failAt > 0 \/ c.parentID \notin DOMAIN d.tasks
              THEN out(d, ErrMsg("taskCreated"))
              ELSE out(DbInsert(d, id, Row(c.title, "pending", "medium", parentProject,
                                           c.parentID, NoTime, NoPos, now)),
                       [Msg("taskCreated") EXCEPT
                          !.task = CreatedTask(id, c.title, parentProject, c.parentID, now)])
       [] c.kind = "updateTaskTitle" ->
            IF failAt > 0 THEN out(d, ErrMsg("taskUpdated"))
            ELSE out(IF c.id \in DOMAIN d.tasks
                       THEN [d EXCEPT !.tasks[c.id].title = c.title] ELSE d,
                     Msg("taskUpdated"))
       [] c.kind = "toggleSelected" ->
            IF toggleIDs = <<>> THEN out(d, NoMsg)
            ELSE out(ToggleAll(d, toggleIDs, now), Msg("taskUpdated"))
       [] c.kind = "cyclePriority" ->
            IF Len(tasks) = 0 THEN out(d, NoMsg)
            ELSE LET task == tasks[c.capCursor + 1]
                 IN IF failAt > 0
                      THEN out(d, [ErrMsg("priorityChangedLocal") EXCEPT !.taskID = task.ID])
                      ELSE out(IF task.ID \in DOMAIN d.tasks
                                 THEN [d EXCEPT !.tasks[task.ID].priority =
                                                  NextPriority(task.Priority)]
                                 ELSE d,
                               [Msg("priorityChangedLocal") EXCEPT
                                  !.taskID = task.ID,
                                  !.newPriority = NextPriority(task.Priority)])
       [] c.kind = "deleteTasks" ->
            out(ForEachID(d, c, c.ids, failAt),
                IF failAt > 0 THEN ErrMsg("taskDeleted")
                ELSE [Msg("taskDeleted") EXCEPT !.ids = c.ids])
       [] c.kind \in {"archiveTasks", "setPriority", "moveToProject"} ->
            out(ForEachID(d, c, c.ids, failAt), reply("taskUpdated"))
       [] c.kind = "setTaskParent" ->
            IF failAt > 0 \/ ~ParentExists(d, c.parentID)
              THEN out(d, ErrMsg("taskUpdated"))
              ELSE out(IF c.id \in DOMAIN d.tasks
                         THEN [d EXCEPT !.tasks[c.id].parent = c.parentID] ELSE d,
                       Msg("taskUpdated"))
       [] c.kind = "deleteTaskByID" ->
            IF failAt > 0 THEN out(d, [ErrMsg("taskDeleted") EXCEPT !.ids = <<c.id>>])
            ELSE out(DbDelete(d, c.id), [Msg("taskDeleted") EXCEPT !.ids = <<c.id>>])
       [] c.kind = "restoreTask" ->
            LET row == SnapshotRow(c.task, c.task.CreatedAt, c.task.Position)
            IN IF failAt > 0 \/ ~CanInsert(d, c.task.ID, row)
                 THEN out(d, ErrMsg("taskUpdated"))
                 ELSE out(DbInsert(d, c.task.ID, row), Msg("taskUpdated"))
       [] c.kind = "restoreTaskState" ->
            IF c.task.ID \notin DOMAIN d.tasks THEN out(d, reply("taskUpdated"))
            ELSE IF failAt > 0 \/ ~ParentExists(d, c.task.ParentID)
              THEN out(d, ErrMsg("taskUpdated"))
              ELSE out(DbUpdate(d, c.task.ID,
                         SnapshotRow(c.task, d.tasks[c.task.ID].created,
                                     d.tasks[c.task.ID].position)),
                       Msg("taskUpdated"))
       [] c.kind = "moveTaskToProject" ->
            IF failAt > 0 THEN out(d, ErrMsg("taskUpdated"))
            ELSE out(IF c.id \in DOMAIN d.tasks
                       THEN [d EXCEPT !.tasks[c.id].project = c.projectID] ELSE d,
                     Msg("taskUpdated"))
       [] c.kind = "addTagToTask" ->
            IF failAt > 0 \/ c.id \notin DOMAIN d.tasks THEN out(d, ErrMsg("taskUpdated"))
            ELSE out([d EXCEPT !.taskTags = @ \cup {<<c.id, c.tagIDs[1]>>}],
                     Msg("taskUpdated"))
       [] c.kind = "removeTagFromTask" ->
            IF failAt > 0 THEN out(d, ErrMsg("taskUpdated"))
            ELSE out([d EXCEPT !.taskTags = @ \ {<<c.id, c.tagIDs[1]>>}],
                     Msg("taskUpdated"))
       [] c.kind = "addDependency" ->
            IF failAt > 0 \/ {c.id, c.dependsOnID} \ DOMAIN d.tasks # {}
              THEN out(d, ErrMsg("taskUpdated"))
              ELSE out([d EXCEPT !.deps = @ \cup {<<c.id, c.dependsOnID>>}],
                       Msg("taskUpdated"))
       [] c.kind = "removeDependency" ->
            IF failAt > 0 THEN out(d, ErrMsg("taskUpdated"))
            ELSE out([d EXCEPT !.deps = @ \ {<<c.id, c.dependsOnID>>}],
                     Msg("taskUpdated"))
       [] c.kind = "recolor" -> out(d, reply("taskUpdated"))
       [] c.kind = "startTime" ->
            out(d, IF failAt > 0 THEN ErrMsg("taskUpdated") ELSE Msg("timeTrackingStarted"))
       [] c.kind = "stopTime" ->
            out(d, IF failAt > 0 THEN ErrMsg("taskUpdated") ELSE Msg("timeTrackingStopped"))
       [] c.kind = "error" -> out(d, Msg("error"))
       [] c.kind = "quit" -> out(d, Msg("quit"))
       [] OTHER -> out(d, NoMsg)

\* ------------------------------------------------------------------- state

VARIABLES
  v,        \* the ListView the root model holds
  db,       \* the store: tasks, task_tags, task_dependencies
  cmds,     \* commands returned by Update and not yet run
  msgs,     \* messages returned by commands and not yet handled
  created,  \* tasks inserted by createTask and createSubtask so far
  faults,   \* store statements that have failed so far
  ld,       \* the run of loadTasks that is under way, statement by statement
  conn,     \* who holds the one connection of the pool (SetMaxOpenConns(1))
  running   \* the program has not ended (tea.QuitMsg, or a panic)

vars == <<v, db, cmds, msgs, created, faults, ld, conn, running>>

\* time.Now(): the clock moves when a task is inserted, so that no two tasks
\* share a created_at
Now == StartTime + created

\* uuid.New()
NewId == IF DOMAIN db.tasks = {} THEN 1 + created
         ELSE 1 + created + (CHOOSE m \in DOMAIN db.tasks : \A i \in DOMAIN db.tasks : i <= m)

\* No run of loadTasks under way.  A run keeps the rows its cursor returns,
\* the tasks scanned so far, its loop indexes i and j, and whether the store
\* has failed one of its statements; asOf is the tasks table as the top-level
\* query saw it.
Idle ==
  [pc |-> "idle", rows |-> <<>>, tasks |-> <<>>, i |-> 0, j |-> 0,
   blocked |-> <<>>, failed |-> FALSE, asOf |-> <<>>]

\* commands started and not yet handled: waiting, running, or returned
InFlight == Len(cmds) + Len(msgs) + (IF ld.pc = "idle" THEN 0 ELSE 1)

\* what the runtime does with the result of an Update: the view replaces the
\* old one, the command (if any) is started; commands already in flight keep
\* the slice and the map the controller has just let go of
Froze(c, r) ==
  [c EXCEPT
     !.capTasks = IF c.tasksLive /\ r.v.newTasksSlice THEN v.tasks ELSE @,
     !.tasksLive = @ /\ ~r.v.newTasksSlice,
     !.capSelected = IF c.selLive /\ r.v.newSelectedMap THEN v.selected ELSE @,
     !.selLive = @ /\ ~r.v.newSelectedMap]

Adopt(r, pending) ==
  /\ v' = [r.v EXCEPT !.newTasksSlice = FALSE, !.newSelectedMap = FALSE]
  /\ cmds' = [k \in DOMAIN pending |-> Froze(pending[k], r)]
             \o (IF r.cmd = NoCmd THEN <<>> ELSE <<r.cmd>>)

Creates(c) == c.kind \in {"createTask", "createSubtask"}

\* The bounds of a run: commands in flight, tasks created, undo records (up
\* to maxUndo), characters typed into a selector, and the command lines that
\* are modelled.
WithinBounds(key, r, maxUndo) ==
  /\ r.cmd # NoCmd => InFlight < MaxInflight
  /\ Creates(r.cmd) =>
       created + Cardinality({k \in DOMAIN cmds : Creates(cmds[k])}) < MaxNew
  /\ Len(r.v.undoStack) > Len(v.undoStack) => Len(r.v.undoStack) <= maxUndo
  /\ Len(r.v.selectorSearch) > Len(v.selectorSearch) =>
       Len(r.v.selectorSearch) <= MaxInput
  /\ (v.mode = "command" /\ key = "enter") => CommandModelled(CommandLine(v))

\* the user presses a key: Update(tea.KeyMsg)
PressUpTo(key, maxUndo) ==
  /\ running
  /\ \E order \in MapOrders(v.selected) :
       LET r == RootUpdate(v, key, order, Now)
       IN /\ WithinBounds(key, r, maxUndo)
          /\ Adopt(r, cmds)
          /\ running' = (r.cmd # Panic)
  /\ UNCHANGED <<db, msgs, created, faults, ld, conn>>

Press(key) == PressUpTo(key, MaxUndo)

\* the statements of a command that can fail
Fallible(c) ==
  CASE c.kind \in {"deleteTasks", "archiveTasks", "setPriority", "moveToProject"} ->
         1..Len(c.ids)
    [] c.kind \in {"toggleSelected", "error", "quit", "panic", "none"} -> {}
    [] OTHER -> {1}

\* the runtime runs a command to its end and queues the message it returns;
\* its statements wait for the connection while a cursor holds it
RunCmd(i) ==
  LET c == cmds[i]
      tasks == IF c.tasksLive THEN v.tasks ELSE c.capTasks
      selected == IF c.selLive THEN v.selected ELSE c.capSelected
  IN /\ running
     /\ conn = "free"
     /\ \E order \in (IF c.kind = "toggleSelected" THEN MapOrders(selected) ELSE {<<>>}),
           failAt \in {0} \cup (IF faults < MaxFaults THEN Fallible(c) ELSE {}) :
          LET out == RunCommand(db, c, tasks, order, Now, NewId, failAt)
          IN /\ db' = out.db
             /\ msgs' = IF out.msg = NoMsg THEN msgs ELSE Append(msgs, out.msg)
             /\ created' = IF Creates(c) /\ ~out.msg.err THEN created + 1 ELSE created
             /\ faults' = IF failAt > 0 THEN faults + 1 ELSE faults
     /\ cmds' = [k \in 1..(Len(cmds) - 1) |-> IF k < i THEN cmds[k] ELSE cmds[k + 1]]
     /\ UNCHANGED <<v, ld, conn, running>>

\* the runtime hands the next message to Update; tea.QuitMsg ends its loop
Deliver ==
  /\ running
  /\ msgs # <<>>
  /\ IF Head(msgs).kind = "quit"
       THEN running' = FALSE /\ UNCHANGED <<v, cmds>>
       ELSE running' = TRUE /\ Adopt(HandleMessage(v, Head(msgs), Now), cmds)
  /\ msgs' = Tail(msgs)
  /\ UNCHANGED <<db, created, faults, ld, conn>>

\* ------------------------------------------- loadTasks, statement by statement

\* The outcomes of a store statement: it succeeds, or it fails while the run
\* has failures left.
Outcomes == {TRUE} \cup (IF faults < MaxFaults THEN {FALSE} ELSE {})

Counted(ok) == IF ok THEN faults ELSE faults + 1

\* rows.Close(): the cursor gives the connection back to the pool
RowsKeptOpen(holder) == holder

RowsClose(holder) == IF holder = "rows" THEN "free" ELSE holder

\* the index of the first task from k on that has dependencies
\* (for _, t := range tasks { if len(t.Dependencies) > 0 {)
RECURSIVE NextWithDeps(_, _)
NextWithDeps(tasks, k) ==
  IF k > Len(tasks) \/ tasks[k].Dependencies # {} THEN k
  ELSE NextWithDeps(tasks, k + 1)

\* where the run goes after the enrichment of task i
AfterTask(l) ==
  IF l.i < Len(l.tasks) THEN [l EXCEPT !.pc = "GetTaskTags", !.i = l.i + 1, !.j = 0]
  ELSE LET k == NextWithDeps(l.tasks, 1)
       IN [l EXCEPT !.pc = IF k > Len(l.tasks) THEN "Return" ELSE "IsTaskBlocked",
                    !.i = k, !.j = 0]

\* the runtime starts loadTasks in a goroutine of its own
LoadBegin(i) ==
  /\ running
  /\ ld.pc = "idle"
  /\ cmds[i].kind = "loadTasks"
  /\ ld' = [Idle EXCEPT !.pc = "GetProjects"]
  /\ cmds' = [k \in 1..(Len(cmds) - 1) |-> IF k < i THEN cmds[k] ELSE cmds[k + 1]]
  /\ UNCHANGED <<running, v, db, msgs, created, faults, conn>>

\* return tasksLoadedMsg{...}: the deferred rows.Close() runs and the runtime
\* queues the message
LoadReturns(m) ==
  /\ msgs' = Append(msgs, m)
  /\ ld' = Idle
  /\ conn' = RowsClose(conn)

\* projects, err := v.db.GetProjects()
LoadGetProjects ==
  /\ running
  /\ ld.pc = "GetProjects"
  /\ conn = "free"
  /\ \E ok \in Outcomes :
       /\ faults' = Counted(ok)
       /\ IF ok THEN /\ ld' = [ld EXCEPT !.pc = "GetTags"]
                     /\ UNCHANGED <<msgs, conn>>
          ELSE LoadReturns(ErrMsg("tasksLoaded"))
  /\ UNCHANGED <<running, v, db, cmds, created>>

\* tags, err := v.db.GetTags()
LoadGetTags ==
  /\ running
  /\ ld.pc = "GetTags"
  /\ conn = "free"
  /\ \E ok \in Outcomes :
       /\ faults' = Counted(ok)
       /\ IF ok THEN /\ ld' = [ld EXCEPT !.pc = "Query"]
                     /\ UNCHANGED <<msgs, conn>>
          ELSE LoadReturns(ErrMsg("tasksLoaded"))
  /\ UNCHANGED <<running, v, db, cmds, created>>

\* rows, err := v.db.Query(...): the cursor takes the connection
LoadQuery ==
  /\ running
  /\ ld.pc = "Query"
  /\ conn = "free"
  /\ \E ok \in Outcomes :
       /\ faults' = Counted(ok)
       /\ IF ok THEN /\ ld' = [ld EXCEPT !.pc = "Next", !.rows = QueryTopLevel(db),
                                        !.asOf = db.tasks]
                     /\ conn' = "rows"
                     /\ UNCHANGED msgs
          ELSE LoadReturns(ErrMsg("tasksLoaded"))
  /\ UNCHANGED <<running, v, db, cmds, created>>

\* rows.Next() is true: rows.Scan and tasks = append(tasks, t)
LoadScan ==
  /\ running
  /\ ld.pc = "Next"
  /\ Len(ld.tasks) < Len(ld.rows)
  /\ \E ok \in Outcomes :
       /\ faults' = Counted(ok)
       /\ IF ok THEN /\ ld' = [ld EXCEPT !.tasks =
                                 Append(@, ScanTaskRow(db, ld.rows[Len(ld.tasks) + 1]))]
                     /\ UNCHANGED <<msgs, conn>>
          ELSE LoadReturns(ErrMsg("tasksLoaded"))
  /\ UNCHANGED <<running, v, db, cmds, created>>

\* rows.Next() is false: rows.Close(), then the second pass
LoadClose ==
  /\ running
  /\ ld.pc = "Next"
  /\ Len(ld.tasks) = Len(ld.rows)
  /\ conn' = RowsClose(conn)
  /\ ld' = IF ld.tasks = <<>> THEN [ld EXCEPT !.pc = "Return"]
           ELSE [ld EXCEPT !.pc = "GetTaskTags", !.i = 1]
  /\ UNCHANGED <<running, v, db, cmds, msgs, created, faults>>

\* taskTags, _ := v.db.GetTaskTags(tasks[i].ID)
LoadGetTaskTags ==
  /\ running
  /\ ld.pc = "GetTaskTags"
  /\ conn = "free"
  /\ \E ok \in Outcomes :
       /\ faults' = Counted(ok)
       /\ ld' = [ld EXCEPT
                   !.pc = "GetSubtasks",
                   !.failed = @ \/ ~ok,
                   !.tasks[ld.i].Tags =
                      IF ok THEN GetTaskTags(db, ld.tasks[ld.i].ID) ELSE <<>>]
  /\ UNCHANGED <<running, v, db, cmds, msgs, created, conn>>

\* subtasks, _ := v.db.GetSubtasks(tasks[i].ID)
LoadGetSubtasks ==
  /\ running
  /\ ld.pc = "GetSubtasks"
  /\ conn = "free"
  /\ \E ok \in Outcomes :
       LET subs == IF ok THEN GetSubtasks(db, ld.tasks[ld.i].ID) ELSE <<>>
           l == [ld EXCEPT !.failed = @ \/ ~ok, !.tasks[ld.i].Subtasks = subs]
       IN /\ faults' = Counted(ok)
          /\ ld' = IF subs = <<>> THEN [l EXCEPT !.pc = "GetTaskDependencies"]
                   ELSE [l EXCEPT !.pc = "GetSubtaskTags", !.j = 1]
  /\ UNCHANGED <<running, v, db, cmds, msgs, created, conn>>

\* subtaskTags, _ := v.db.GetTaskTags(subtasks[j].ID)
LoadGetSubtaskTags ==
  /\ running
  /\ ld.pc = "GetSubtaskTags"
  /\ conn = "free"
  /\ \E ok \in Outcomes :
       LET subs == ld.tasks[ld.i].Subtasks
           l == [ld EXCEPT
                   !.failed = @ \/ ~ok,
                   !.tasks[ld.i].Subtasks[ld.j].Tags =
                      IF ok THEN GetTaskTags(db, subs[ld.j].ID) ELSE <<>>]
       IN /\ faults' = Counted(ok)
          /\ ld' = IF ld.j < Len(subs) THEN [l EXCEPT !.j = ld.j + 1]
                   ELSE [l EXCEPT !.pc = "GetTaskDependencies"]
  /\ UNCHANGED <<running, v, db, cmds, msgs, created, conn>>

\* deps, _ := v.db.GetTaskDependencies(tasks[i].ID)
LoadGetTaskDependencies ==
  /\ running
  /\ ld.pc = "GetTaskDependencies"
  /\ conn = "free"
  /\ \E ok \in Outcomes :
       /\ faults' = Counted(ok)
       /\ ld' = AfterTask([ld EXCEPT
                   !.failed = @ \/ ~ok,
                   !.tasks[ld.i].Dependencies =
                      IF ok THEN GetTaskDependencies(db, ld.tasks[ld.i].ID) ELSE {}])
  /\ UNCHANGED <<running, v, db, cmds, msgs, created, conn>>

\* isBlocked, _ := v.db.IsTaskBlocked(t.ID); blockedMap[t.ID] = isBlocked
LoadIsTaskBlocked ==
  /\ running
  /\ ld.pc = "IsTaskBlocked"
  /\ conn = "free"
  /\ \E ok \in Outcomes :
       LET id == ld.tasks[ld.i].ID
           k == NextWithDeps(ld.tasks, ld.i + 1)
       IN /\ faults' = Counted(ok)
          /\ ld' = [ld EXCEPT
                      !.pc = IF k > Len(ld.tasks) THEN "Return" ELSE "IsTaskBlocked",
                      !.i = k,
                      !.failed = @ \/ ~ok,
                      !.blocked = [x \in (DOMAIN ld.blocked) \cup {id} |->
                                     IF x = id THEN ok /\ IsTaskBlocked(db, id)
                                     ELSE ld.blocked[x]]]
  /\ UNCHANGED <<running, v, db, cmds, msgs, created, conn>>

\* return tasksLoadedMsg{tasks, projects, tags, blocked}
LoadReturn ==
  /\ running
  /\ ld.pc = "Return"
  /\ LoadReturns([Msg("tasksLoaded") EXCEPT
                    !.tasks = ld.tasks, !.projects = DbProjects, !.tags = DbTags,
                    !.blocked = ld.blocked, !.asOf = ld.asOf])
  /\ UNCHANGED <<running, v, db, cmds, created, faults>>

\* a statement of the run of loadTasks that is under way
LoadStep ==
  \/ LoadGetProjects
  \/ LoadGetTags
  \/ LoadQuery
  \/ LoadScan
  \/ LoadClose
  \/ LoadGetTaskTags
  \/ LoadGetSubtasks
  \/ LoadGetSubtaskTags
  \/ LoadGetTaskDependencies
  \/ LoadIsTaskBlocked
  \/ LoadReturn

\* ------------------------------------------------------------------ stores

\* a store from a sequence of rows (ids 1..n), tag links and dependencies
Store(rows, taskTags, deps) ==
  [tasks |-> rows, taskTags |-> taskTags, deps |-> deps]

\* Two parents with a subtask each, one parent done long ago, and a task done
\* recently; titles, projects and tags that tell the filters apart.
StoreMixed ==
  Store(<<Row(<<"x">>, "pending", "high", 1, NoId, NoTime, NoPos, 6),
          Row(<<"y">>, "done", "medium", 2, NoId, OldTime, NoPos, 5),
          Row(<<"X", "y">>, "pending", "low", 1, 1, NoTime, NoPos, 4),
          Row(<<"x">>, "done", "low", NoId, NoId, RecentTime, NoPos, 3),
          Row(<<"x">>, "done", "urgent", 2, 2, RecentTime, NoPos, 2)>>,
        {<<1, 1>>, <<2, 1>>, <<2, 2>>, <<3, 2>>},
        {<<1, 2>>})

\* the state after construction: NewListView, and Init() has returned loadTasks
InitWith(stores, failures) ==
  /\ v = NewListView
  /\ db \in stores
  /\ cmds = <<Cmd("loadTasks")>>
  /\ msgs = <<>>
  /\ created = 0
  /\ faults = MaxFaults - failures
  /\ ld = Idle
  /\ conn = "free"
  /\ running = TRUE

\* ------------------------------------------- the view: filters and expansion

\* The keys of a user who filters, searches and expands: by where the
\* controller is.
FilterKeys ==
  IF v.selectingProjectFilter THEN {"down", "enter", "esc"}
  ELSE IF v.selectingTagFilter THEN {"down", " ", "esc"}
  ELSE IF v.mode = "search" THEN {"x", "y", "enter", "esc"}
  ELSE {"H", "A", "o", "E", "C", "esc", "M", "T", "/", "down", "up"}

InitFilter == InitWith({StoreMixed}, 0)

NextFilter ==
  \/ \E key \in FilterKeys : Press(key)
  \/ \E i \in DOMAIN cmds : RunCmd(i)
  \/ Deliver

SpecFilter == InitFilter /\ [][NextFilter]_vars

\* the rows of the visible sequence that are top-level tasks
TopRows == SelectSeq(v.tasks, LAMBDA t : t.ParentID = NoId)

\* The rule a top-level task has to pass to be shown, as the specification
\* words it: the view mode, the project, every tag, the text.
PassesViewMode(t) ==
  CASE v.viewMode = "active" -> t.Status # "done"
    [] v.viewMode = "recent" ->
         ~(t.Status = "done" /\ t.CompletedAt # NoTime /\ Now - t.CompletedAt > RecentDays)
    [] OTHER -> TRUE

PassesFilters(t) ==
  /\ PassesViewMode(t)
  /\ v.filterProjectID # NoId => t.ProjectID = v.filterProjectID
  /\ Range(v.filterTagIDs) \subseteq Range(t.Tags)
  /\ v.searchFilter # <<>> =>
       \/ MatchesOwnFields(t, ToLower(v.searchFilter))
       \/ \E k \in DOMAIN t.Subtasks :
            MatchesOwnFields(t.Subtasks[k], ToLower(v.searchFilter))

ShowsSubtasks(i) ==
  IsExpanded(v, v.tasks[i].ID) /\ Len(v.tasks[i].Subtasks) > 0

\* the top-level rows keep the order of allTasks; each is followed by its
\* subtasks, in their stored order, exactly when ShowsSubtasks; nothing else
\* is in the sequence
FlatInOrder ==
  /\ TopRows = SelectSeq(v.allTasks, LAMBDA t : t \in Range(TopRows))
  /\ v.tasks # <<>> => v.tasks[1].ParentID = NoId
  /\ \A i \in DOMAIN v.tasks :
       v.tasks[i].ParentID = NoId =>
         LET n == IF ShowsSubtasks(i) THEN Len(v.tasks[i].Subtasks) ELSE 0
         IN /\ i + n <= Len(v.tasks)
            /\ \A k \in 1..n : v.tasks[i + k] = v.tasks[i].Subtasks[k]
            /\ i + n < Len(v.tasks) => v.tasks[i + n + 1].ParentID = NoId

\* the parents a step collapses: expanded before it, not after it
Collapsed == {id \in DOMAIN v.expanded : IsExpanded(v, id) /\ ~IsExpanded(v', id)}

Collapses ==
  /\ Collapsed # {}
  /\ \A id \in DOMAIN v'.expanded : IsExpanded(v', id) => IsExpanded(v, id)

\* C6: the visible sequence is the filtered top-level tasks in their order,
\* each followed at once by its subtasks in stored order exactly when it is
\* expanded and has subtasks; and a step that collapses parents removes the
\* rows of their subtasks and nothing else, keeps the order of the other rows
\* and leaves allTasks as it was.
C6_FlattenAndCollapse ==
  /\ []FlatInOrder
  /\ [][Collapses =>
          /\ v'.allTasks = v.allTasks
          /\ v'.tasks = SelectSeq(v.tasks, LAMBDA t : t.ParentID \notin Collapsed)]_vars

\* C6 happens: one parent is shown with its subtasks while another parent,
\* expanded earlier, has been collapsed again by key o.
C6_Witness ==
  /\ \E i \in DOMAIN v.tasks : v.tasks[i].ParentID = NoId /\ ShowsSubtasks(i)
  /\ \E id \in DOMAIN v.expanded : ~v.expanded[id]

\* ------------------------------------------------- the reload, step by step

\* Tasks that agree on status and priority and differ in created_at, an
\* archived task, a task done recently and a subtask; a dependency on a task
\* that is not done.
StoreOrder ==
  Store(<<Row(<<"x">>, "pending", "low", 1, NoId, NoTime, NoPos, 1),
          Row(<<"y">>, "pending", "high", 1, NoId, NoTime, NoPos, 2),
          Row(<<"x">>, "pending", "high", 2, NoId, NoTime, NoPos, 3),
          Row(<<"y">>, "archived", "urgent", 2, NoId, NoTime, NoPos, 4),
          Row(<<"x">>, "done", "urgent", NoId, NoId, RecentTime, NoPos, 5),
          Row(<<"y">>, "pending", "medium", 1, 2, NoTime, NoPos, 6)>>,
        {<<2, 1>>, <<6, 2>>},
        {<<3, 1>>})

\* Tasks that agree on status and priority and differ in position: one has
\* none (NULL), which SQLite returns first.
StorePositions ==
  Store(<<Row(<<"x">>, "pending", "medium", 1, NoId, NoTime, 2, 3),
          Row(<<"y">>, "pending", "medium", 1, NoId, NoTime, 1, 1),
          Row(<<"x">>, "pending", "medium", 1, NoId, NoTime, NoPos, 2)>>,
        {},
        {})

\* The keys of a user who marks tasks done and moves on while reloads run.
LoadKeys == {"tab", "down"}

InitLoad == InitWith({StoreOrder, StorePositions}, MaxFaults)

NextLoad ==
  \/ \E key \in LoadKeys : Press(key)
  \/ \E i \in DOMAIN cmds : LoadBegin(i)
  \/ LoadStep
  \/ \E i \in DOMAIN cmds : cmds[i].kind # "loadTasks" /\ RunCmd(i)
  \/ Deliver

SpecLoad == InitLoad /\ [][NextLoad]_vars

\* The same with a user who only marks the task at the cursor done and
\* pending again, and a goroutine of loadTasks that is scheduled until it
\* returns.
NextLoadFair ==
  \/ Press("tab")
  \/ \E i \in DOMAIN cmds : LoadBegin(i)
  \/ LoadStep
  \/ \E i \in DOMAIN cmds : cmds[i].kind # "loadTasks" /\ RunCmd(i)
  \/ Deliver

SpecLoadFair == InitLoad /\ [][NextLoadFair]_vars /\ WF_vars(LoadStep)

\* the run is in its second pass or computes the blocked map
Enriching ==
  ld.pc \in {"GetTaskTags", "GetSubtasks", "GetSubtaskTags",
             "GetTaskDependencies", "IsTaskBlocked"}

\* C1: while a reload issues its enrichment queries (task tags, subtasks,
\* subtask tags, dependencies, blocked status) the cursor of its top-level
\* query is closed, so the one connection of the pool is free for them; and
\* every reload that has started returns.
C1_NoNestedQuery ==
  /\ [](Enriching => conn # "rows")
  /\ (ld.pc # "idle") ~> (ld.pc = "idle")

\* C1 happens: a reload that read three top-level rows through its cursor
\* has closed it and is asking for the tags of a subtask.
C1_Witness ==
  /\ ld.pc = "GetSubtaskTags"
  /\ Len(ld.rows) >= 3
  /\ conn = "free"

\* a run of loadTasks returns: the message it returns is the last one queued
LoadReturning == ld.pc # "idle" /\ ld'.pc = "idle"

\* C2: a reload during which a query or a scan has failed, the enrichment
\* queries included, returns a load error (which Update does not adopt).
C2_FailureIsLoadError ==
  [][(LoadReturning /\ (ld.failed \/ faults' > faults))
       => msgs'[Len(msgs')].err]_vars

\* the ids of a sequence of tasks
TaskIDs(ts) == [k \in DOMAIN ts |-> ts[k].ID]

\* the sort key the specification gives, compared lexicographically: not done
\* before done, urgent > high > medium > low, position ascending, creation
\* time descending
SortKey(row) ==
  <<IF row.status = "done" THEN 1 ELSE 0,
    CASE row.priority = "urgent" -> 0
      [] row.priority = "high" -> 1
      [] row.priority = "medium" -> 2
      [] OTHER -> 3,
    row.position,
    0 - row.created>>

RECURSIVE LexLeq(_, _)
LexLeq(a, b) ==
  \/ a = <<>>
  \/ Head(a) < Head(b)
  \/ Head(a) = Head(b) /\ LexLeq(Tail(a), Tail(b))

\* Update handles the result of a successful reload
ReloadAdopted ==
  /\ msgs # <<>>
  /\ msgs' = Tail(msgs)
  /\ Head(msgs).kind = "tasksLoaded"
  /\ ~Head(msgs).err

\* C7: after a successful reload allTasks holds exactly the tasks that had no
\* parent and were not archived when the reload read the store, each once, in
\* the order of the sort key.
C7_ReloadOrder ==
  [][ReloadAdopted =>
       LET rows == Head(msgs).asOf
           ids == TaskIDs(v'.allTasks)
       IN /\ Range(ids) = {i \in DOMAIN rows :
                             rows[i].parent = NoId /\ rows[i].status # "archived"}
          /\ \A i, j \in DOMAIN ids :
               i < j => ids[i] # ids[j] /\ LexLeq(SortKey(rows[ids[i]]), SortKey(rows[ids[j]]))]_vars

\* C7 happens: a task of high priority that the user marked done has been
\* reloaded behind a pending task of low priority.
C7_Witness ==
  \E i, j \in DOMAIN v.allTasks :
    /\ i < j
    /\ v.allTasks[i].Status = "pending" /\ v.allTasks[i].Priority = "low"
    /\ v.allTasks[j].Status = "done" /\ v.allTasks[j].Priority = "high"
    /\ \E k \in DOMAIN v.undoStack :
         /\ v.undoStack[k].Type = "toggleStatus"
         /\ v.undoStack[k].TaskID = v.allTasks[j].ID

\* ------------------------------------------------- parents, undo and redo

\* Two top-level tasks, one of them done.
StorePair ==
  Store(<<Row(<<"x">>, "pending", "high", 1, NoId, NoTime, NoPos, 2),
          Row(<<"y">>, "done", "medium", 1, NoId, RecentTime, NoPos, 1)>>,
        {<<1, 1>>},
        {})

\* The keys of a user who adds subtasks, sets and removes parents, changes
\* priorities and undoes and redoes.
TreeKeys ==
  IF v.selectingParent THEN {"enter", "esc"}
  ELSE IF v.mode = "addSubtask" THEN {"x", "enter"}
  ELSE {"P", "s", "ctrl+z"}

InitTree == InitWith({StorePair}, 0)

NextTree ==
  \/ \E key \in TreeKeys : Press(key)
  \/ \E i \in DOMAIN cmds : RunCmd(i)
  \/ Deliver

SpecTree == InitTree /\ [][NextTree]_vars

\* the tasks of the store that have a parent and subtasks of their own
Nested ==
  {i \in DOMAIN db.tasks :
     /\ db.tasks[i].parent # NoId
     /\ \E k \in DOMAIN db.tasks : db.tasks[k].parent = i}

\* C9: no task of the store that has a parent has subtasks of its own.
C9_DepthAtMostOne == Nested = {}

\* ------------------------------------------------------- status and archive

\* Two top-level tasks, one of them done, and a subtask of the first.
StoreTree ==
  Store(<<Row(<<"x">>, "pending", "high", 1, NoId, NoTime, NoPos, 3),
          Row(<<"y">>, "done", "medium", 1, NoId, RecentTime, NoPos, 2),
          Row(<<"x">>, "pending", "low", 1, 1, NoTime, NoPos, 1)>>,
        {<<1, 1>>},
        {})

\* The keys of a user who selects tasks, marks them done, undoes and redoes,
\* and archives from the command line: ":", "a", down to "archive", and enter
\* once it says archive.
StatusKeys ==
  IF v.mode = "command"
    THEN {"a", "down", "esc"}
         \cup (IF CommandLine(v) = <<"a", "r", "c", "h", "i", "v", "e">>
                 THEN {"enter"} ELSE {})
  ELSE {"tab", "down", " ", ":", "ctrl+z", "ctrl+y"}

\* nothing is in flight: every command has run and its message is handled
Quiet == cmds = <<>> /\ msgs = <<>> /\ ld.pc = "idle"

\* This user waits for the list to settle before the next key.
NextStatus ==
  \/ \E key \in StatusKeys : Quiet /\ Press(key)
  \/ \E i \in DOMAIN cmds : RunCmd(i)
  \/ Deliver

InitStatus == InitWith({StoreTree}, 0)

SpecStatus == InitStatus /\ [][NextStatus]_vars

\* C8: every task of the store is done exactly when its completed_at is set.
C8_DoneIffCompleted ==
  \A i \in DOMAIN db.tasks :
    (db.tasks[i].status = "done") <=> (db.tasks[i].completed # NoTime)

\* what the specification says target resolution returns: the selected ids,
\* else the id of the task at the cursor, else nothing
Targets ==
  IF v.selected # {} THEN v.selected
  ELSE IF Len(v.tasks) > 0 THEN {v.tasks[v.cursor + 1].ID}
  ELSE {}

\* C10: in whatever order the selection is visited, getTargetTaskIDs returns
\* each id of Targets once and nothing else.
C10_TargetIDs ==
  \A order \in MapOrders(v.selected) :
    LET ids == GetTargetTaskIDs(v, order)
    IN Range(ids) = Targets /\ Len(ids) = Cardinality(Targets)

\* C10 happens: ":archive" has resolved its targets to the selection, which
\* does not hold the task at the cursor.
C10_Witness ==
  /\ v.selected # {}
  /\ Len(v.tasks) > 0
  /\ CursorTask(v).ID \notin v.selected
  /\ \E k \in DOMAIN cmds :
       cmds[k].kind = "archiveTasks" /\ Range(cmds[k].ids) = v.selected

\* ------------------------------------------------------ editing the list

\* The keys of a user who expands, starts and abandons subtasks and cycles
\* priorities.
ExpandKeys ==
  IF v.mode = "addSubtask" THEN {"esc"}
  ELSE {"down", "o", "s", "p"}

InitExpand == InitWith({StoreTree}, 0)

NextExpand ==
  \/ \E key \in ExpandKeys : Quiet /\ Press(key)
  \/ \E i \in DOMAIN cmds : RunCmd(i)
  \/ Deliver

SpecExpand == InitExpand /\ [][NextExpand]_vars

\* C4: the rendered sequence is the flattening, by the expanded set, of the
\* tasks of allTasks that the view mode and the filters keep.
C4_TasksDerived == v.tasks = FlattenTasks(v, FilterTasks(v, v.allTasks, Now))

\* The keys of a user who moves, selects, expands, searches
\* and marks done, against a store that may fail.
ErrorKeys ==
  IF v.mode = "search" THEN {"x", "enter"}
  ELSE {"down", " ", "o", "/", "tab"}

\* the store may fail one statement
InitError == InitWith({StoreTree}, MaxFaults)

NextError ==
  \/ \E key \in ErrorKeys : Quiet /\ Press(key)
  \/ \E i \in DOMAIN cmds : RunCmd(i)
  \/ Deliver

SpecError == InitError /\ [][NextError]_vars

\* Update handles the result of a reload that failed
LoadErrorHandled ==
  /\ msgs # <<>>
  /\ msgs' = Tail(msgs)
  /\ Head(msgs).kind = "tasksLoaded"
  /\ Head(msgs).err

\* C3: handling the result of a failed reload changes the status message and
\* nothing else of the view: allTasks, tasks, projects, tags, blocked, cursor,
\* selected, expanded, the filters and both stacks stay as they were.
C3_ErrorKeepsState ==
  [][LoadErrorHandled =>
       /\ v'.statusMsg = <<"Error loading tasks">>
       /\ v' = [v EXCEPT !.statusMsg = v'.statusMsg]]_vars

\* C3 happens: a failed reload has just been handled in a view that has
\* tasks, a selection, an expanded parent, a search filter, a cursor off the
\* first row and an undo record.
C3_Witness ==
  /\ v.statusMsg = <<"Error loading tasks">>
  /\ v.allTasks # <<>>
  /\ v.selected # {}
  /\ \E id \in DOMAIN v.expanded : v.expanded[id]
  /\ v.searchFilter # <<>>
  /\ v.cursor > 0
  /\ v.undoStack # <<>>

\* ------------------------------------------------------- bulk mutations

\* The keys of a user who selects tasks, cycles priorities and deletes.
BulkKeys ==
  IF v.mode = "confirmDelete" THEN {"y", "n"}
  ELSE {"down", " ", "p", "d"}

InitBulk == InitWith({StoreTree}, 0)

NextBulk ==
  \/ \E key \in BulkKeys : Quiet /\ Press(key)
  \/ \E i \in DOMAIN cmds : RunCmd(i)
  \/ Deliver

SpecBulk == InitBulk /\ [][NextBulk]_vars

\* the command the last Update has handed to the runtime
LastCmd == cmds[Len(cmds)]

\* the tasks a priority or delete command is about to write: the ids it was
\* given, or the task its closure finds at the cursor
Mutated ==
  IF LastCmd.kind = "cyclePriority"
    THEN (IF Len(v.tasks) > 0 THEN {v.tasks[LastCmd.capCursor + 1].ID} ELSE {})
    ELSE Range(LastCmd.ids)

\* C11: whenever a key hands a priority or delete command to the runtime, the
\* tasks the command writes are the resolved targets: the selected tasks when
\* there is a selection, else the task at the cursor.
C11_MutatesTargets ==
  [][(/\ Len(cmds') > Len(cmds)
      /\ LastCmd'.kind \in {"cyclePriority", "deleteTasks"})
     => Mutated' = Targets]_vars

\* -------------------------------------------------- selection over reloads

\* the ids of the tasks a reload has returned: the top-level tasks and their
\* subtasks
LoadedIDs(ts) ==
  {ts[k].ID : k \in DOMAIN ts}
    \cup UNION {{ts[k].Subtasks[j].ID : j \in DOMAIN ts[k].Subtasks} : k \in DOMAIN ts}

\* C12: when the result of a successful reload has been handled, every
\* selected id is the id of a task the reload returned.
C12_SelectedLoaded ==
  [][ReloadAdopted => v'.selected \subseteq LoadedIDs(v'.allTasks)]_vars

\* ------------------------------------------------------ modes and selectors

\* the six selector flags of ListView
SelectorFlags ==
  {"selectingProject", "selectingTag", "selectingDep", "selectingProjectFilter",
   "selectingTagFilter", "selectingParent"}

ActiveSelectors(w) == {f \in SelectorFlags : w[f]}

\* The keys of a user who enters and leaves every mode and every selector,
\* opens the selectors from the command line as well, and tries q and ctrl+c
\* everywhere: by where the controller is.  On the command line the user
\* types f or p and moves to a suggestion that opens a selector.
ModeKeys ==
  {"q", "ctrl+c"} \cup
  (IF v.mode = "command"
     THEN (IF v.input = <<>> THEN {"f", "p", "esc"} ELSE {"down", "esc"})
          \cup (IF CommandLine(v) \in {<<"f", "i", "l", "t", "e", "r", "p", "r", "o", "j", "e", "c", "t">>, <<"f", "i", "l", "t", "e", "r", "t", "a", "g">>, <<"p", "a", "r", "e", "n", "t">>}
                  THEN {"enter"} ELSE {})
   ELSE IF v.mode = "confirmDelete" THEN {"n"}
   ELSE IF v.mode # "normal" THEN {"esc"}
   ELSE IF ActiveSelectors(v) # {} THEN {"esc", "enter"}
   ELSE {"a", "s", "enter", "/", ":", "d", "m", "t", "b", "M", "T", "P"})

InitModes == InitWith({StorePair}, 0)

\* This user waits for the list to settle before the next key; the tag and
\* dependency selectors stay open while the results of their toggles arrive.
NextModes ==
  \/ \E key \in ModeKeys : Quiet /\ Press(key)
  \/ \E i \in DOMAIN cmds : RunCmd(i)
  \/ Deliver

SpecModes == InitModes /\ [][NextModes]_vars

\* the modes the specification lists as input modes
InputModes == {"add", "addSubtask", "edit", "search", "command", "confirmDelete"}

\* C13: IsInputMode() is true exactly when the mode is Add, AddSubtask, Edit,
\* Search, Command or ConfirmDelete, or one of the six selectors is active.
C13_InputModeIff ==
  IsInputMode(v) <=> (v.mode \in InputModes \/ ActiveSelectors(v) # {})

\* C13 happens: the dependency selector is open over the list in Normal mode,
\* after the editor has been opened and left.
C13_Witness ==
  /\ v.mode = "normal"
  /\ ActiveSelectors(v) = {"selectingDep"}
  /\ v.editingID # NoId

\* C14: at most one selector flag is set, and only in Normal mode.
C14_OneSelector ==
  /\ Cardinality(ActiveSelectors(v)) <= 1
  /\ ActiveSelectors(v) # {} => v.mode = "normal"

\* C14 happens: the result of a tag toggle has arrived while the tag selector
\* is open, after the parent selector was opened and closed.
C14_Witness ==
  /\ ActiveSelectors(v) = {"selectingTag"}
  /\ msgs # <<>>
  /\ v.parentTaskID # NoId

\* C15: q ends the program exactly when IsInputMode() is false and is
\* otherwise handled by the list as any other key; ctrl+c ends the program in
\* every state; and the program ends in no other way.
C15_QuitOutsideInput ==
  /\ [](\A order \in MapOrders(v.selected) :
          /\ RootUpdate(v, "q", order, Now).cmd = Quit <=> ~IsInputMode(v)
          /\ IsInputMode(v) =>
               RootUpdate(v, "q", order, Now) = HandleKey(v, "q", order, Now)
          /\ RootUpdate(v, "ctrl+c", order, Now) = R(v, Quit))
  /\ [][(running /\ ~running') => Head(msgs).kind = "quit"]_vars

\* C15 happens: q was typed into the title of a new task, and ctrl+c ended
\* the program from there.
C15_Witness ==
  /\ ~running
  /\ v.mode = "add"
  /\ v.input = <<"q">>

\* ------------------------------------------------------------------ search

\* The keys of a user who moves, selects, expands and searches, and who
\* leaves Search mode with Escape only: no text is ever committed, so the
\* committed filter is the empty one whenever Search mode is entered.
SearchKeys ==
  IF v.mode = "search" THEN {"x", "y", "backspace", "esc"}
  ELSE {"/", "down", " ", "o"}

InitSearch == InitWith({StoreTree}, 0)

NextSearch ==
  \/ \E key \in SearchKeys : Quiet /\ Press(key)
  \/ \E i \in DOMAIN cmds : RunCmd(i)
  \/ Deliver

SpecSearch == InitSearch /\ [][NextSearch]_vars

\* C16: leaving Search mode with Escape leaves the text filter as it was
\* committed when Search mode was entered (here: empty), and the visible
\* sequence as that filter gives it.
C16_EscRestoresFilter ==
  [][(v.mode = "search" /\ v'.mode = "normal")
     => /\ v'.searchFilter = <<>>
        /\ v'.tasks = FlattenTasks(v', FilterTasks(v', v'.allTasks, Now))]_vars

\* --------------------------------------------------- the undo stack's limit

\* The keys of a user who cycles the priority of the task under the cursor,
\* undoes and redoes.
LimitKeys == {"p", "ctrl+z", "ctrl+y"}

InitLimit == InitWith({StorePair}, 0)

\* The user waits until nothing is in flight; the undo stack may fill up.
NextLimit ==
  \/ \E key \in LimitKeys : Quiet /\ PressUpTo(key, UndoLimit + 1)
  \/ \E i \in DOMAIN cmds : RunCmd(i)
  \/ Deliver

SpecLimit == InitLimit /\ [][NextLimit]_vars

Top(st) == st[Len(st)]

Front(st) == SubSeq(st, 1, Len(st) - 1)

\* the step pops the undo stack onto the redo stack
Undone ==
  /\ v.undoStack # <<>>
  /\ v'.undoStack = Front(v.undoStack)
  /\ v'.redoStack = Append(v.redoStack, Top(v.undoStack))

\* the step pops the redo stack onto the undo stack
Redone ==
  /\ v.redoStack # <<>>
  /\ v'.redoStack = Front(v.redoStack)
  /\ v'.undoStack = Append(v.undoStack, Top(v.redoStack))

\* the step pushes a record onto the undo stack
Pushed == v'.undoStack # v.undoStack /\ ~Undone /\ ~Redone

\* C17: the undo stack never holds more than 50 records, also after redo has
\* re-appended records; every push leaves the redo stack empty, and a push
\* onto a full stack drops the oldest record and keeps the others in order.
C17_UndoBounded ==
  /\ [](Len(v.undoStack) <= UndoLimit)
  /\ [][Pushed =>
          /\ v'.redoStack = <<>>
          /\ v'.undoStack # <<>>
          /\ Front(v'.undoStack) =
               IF Len(v.undoStack) = UndoLimit THEN Tail(v.undoStack)
               ELSE v.undoStack]_vars

\* The stack is full and its oldest record is no longer the first priority
\* change (from high): a push has dropped it.
C17_Witness ==
  /\ Len(v.undoStack) = UndoLimit
  /\ v.undoStack[1].OldTask.Priority # "high"

\* ------------------------------------------------- undo records and writes

\* The keys of a user who creates tasks and subtasks, edits titles, toggles,
\* cycles priorities and deletes.
RecordKeys ==
  IF v.mode \in {"add", "addSubtask"} THEN {"x", "enter"}
  ELSE IF v.mode = "edit" THEN {"backspace", "z", "enter"}
  ELSE IF v.mode = "confirmDelete" THEN {"y"}
  ELSE {"a", "s", "enter", "tab", "p", "d"}

InitRecord == InitWith({StorePair}, 0)

\* The user waits until nothing is in flight.
NextRecord ==
  \/ \E key \in RecordKeys : Quiet /\ Press(key)
  \/ \E i \in DOMAIN cmds : RunCmd(i)
  \/ Deliver

SpecRecord == InitRecord /\ [][NextRecord]_vars

\* the type of the undo record of an undo-aware command
RecordType(kind) ==
  CASE kind \in {"createTask", "createSubtask"} -> "create"
    [] kind = "deleteTasks" -> "delete"
    [] kind = "toggleSelected" -> "toggleStatus"
    [] kind \in {"updateTaskTitle", "cyclePriority"} -> "update"
    [] OTHER -> ""

\* the tasks whose row the step inserts, deletes or rewrites
WrittenIDs ==
  {id \in DOMAIN db.tasks \cup DOMAIN db'.tasks :
     \/ id \notin DOMAIN db.tasks
     \/ id \notin DOMAIN db'.tasks
     \/ db.tasks[id] # db'.tasks[id]}

\* the one command in flight runs and writes to the tasks table
Writes(kinds) ==
  /\ Len(cmds) = 1
  /\ cmds' = <<>>
  /\ cmds[1].kind \in kinds
  /\ WrittenIDs # {}

\* the undo stack holds a record of the command's type for a task it writes
Recorded ==
  \E k \in DOMAIN v.undoStack :
    /\ v.undoStack[k].Type = RecordType(cmds[1].kind)
    /\ v.undoStack[k].TaskID \in WrittenIDs

\* C18: when the command of an undo-aware action (create task, create
\* subtask, delete, title edit, status toggle, priority cycle) writes to the
\* store, the action's record is already on the undo stack.
C18_RecordedBeforeWrite ==
  [][Writes({"createTask", "createSubtask", "deleteTasks", "updateTaskTitle",
             "toggleSelected", "cyclePriority"}) => Recorded]_vars

\* The same for the actions whose record the key handler pushes.
RecordedByKeyHandlers ==
  [][Writes({"deleteTasks", "updateTaskTitle", "toggleSelected", "cyclePriority"})
       => Recorded]_vars

\* ------------------------------------------- undo of a create, of a delete

\* The keys of a user who selects, collapses, creates and deletes tasks and
\* undoes.
RestoreKeys ==
  IF v.mode = "add" THEN {"x", "enter"}
  ELSE IF v.mode = "confirmDelete" THEN {"y"}
  ELSE {"down", "g", " ", "o", "a", "d", "ctrl+z"}

InitRestore == InitWith({StoreTree}, 0)

\* The user waits until nothing is in flight.
NextRestore ==
  \/ \E key \in RestoreKeys : Quiet /\ Press(key)
  \/ \E i \in DOMAIN cmds : RunCmd(i)
  \/ Deliver

SpecRestore == InitRestore /\ [][NextRestore]_vars

\* title, status, priority, project, parent and due date of a row
RowFields(row) ==
  <<row.title, row.status, row.priority, row.project, row.parent, row.due>>

\* the same of a model.Task
TaskFields(task) ==
  <<task.Title, task.Status, task.Priority, task.ProjectID, task.ParentID,
    task.DueDate>>

\* the one command in flight runs to its end without an error
Runs(kind) ==
  /\ Len(cmds) = 1
  /\ cmds' = <<>>
  /\ cmds[1].kind = kind
  /\ Len(msgs') = Len(msgs) + 1
  /\ ~Top(msgs').err

\* The record an undo pressed now would pop is the delete record of the task
\* id, with the fields of its row.
DeleteOnTop(id) ==
  /\ v.undoStack # <<>>
  /\ Top(v.undoStack).Type = "delete"
  /\ Top(v.undoStack).TaskID = id
  /\ TaskFields(Top(v.undoStack).Task) = RowFields(db.tasks[id])

\* the confirmed delete of one task removes its row
DeletesOne ==
  /\ Runs("deleteTasks")
  /\ Len(cmds[1].ids) = 1
  /\ cmds[1].ids[1] \in DOMAIN db.tasks

\* C19: undo immediately after a create removes the created task from the
\* store, and undo immediately after the confirmed delete of a task inserts
\* a task with the same id, title, status, priority, project, parent and due
\* date.  Step by step: when a task has been created its create record is on
\* top of the undo stack, and when the delete of a task runs its delete record
\* with the fields of the row is; undo of the record on top issues
\* deleteTaskByID for a create and restoreTask for a delete; deleteTaskByID
\* removes the row and restoreTask inserts the row of the snapshot.
C19_UndoCreateDelete ==
  /\ [][(msgs # <<>> /\ msgs' = Tail(msgs) /\ Head(msgs).kind = "taskCreated"
         /\ ~Head(msgs).err)
        => /\ v'.undoStack # <<>>
           /\ Top(v'.undoStack).Type = "create"
           /\ Top(v'.undoStack).TaskID = Head(msgs).task.ID
           /\ Head(msgs).task.ID \in DOMAIN db.tasks]_vars
  /\ [][DeletesOne => DeleteOnTop(cmds[1].ids[1])]_vars
  /\ [][Undone =>
          LET action == Top(v.undoStack)
          IN /\ action.Type = "create" => cmds' = <<DeleteTaskByIDCmd(action.TaskID)>>
             /\ action.Type = "delete" => cmds' = <<RestoreTaskCmd(action.Task)>>]_vars
  /\ [][Runs("deleteTaskByID") => cmds[1].id \notin DOMAIN db'.tasks]_vars
  /\ [][Runs("restoreTask") =>
          /\ cmds[1].task.ID \in DOMAIN db'.tasks
          /\ RowFields(db'.tasks[cmds[1].task.ID]) = TaskFields(cmds[1].task)]_vars

\* The same for the delete of a task that is in the list when the user
\* confirms.
DeleteOfListedRecorded ==
  [][(DeletesOne /\ FindTask(v.tasks, cmds[1].ids[1]) # NoTask)
       => DeleteOnTop(cmds[1].ids[1])]_vars

\* ----------------------------------------------------------- undo, then redo

\* The keys of a user who cycles priorities, toggles, moves tasks to a
\* project, undoes and redoes.
RedoKeys ==
  IF v.selectingProject THEN {"down", "enter"}
  ELSE {"p", "tab", "m", "ctrl+z", "ctrl+y"}

InitRedo == InitWith({StorePair}, 0)

\* The user waits until nothing is in flight.
NextRedo ==
  \/ \E key \in RedoKeys : Quiet /\ Press(key)
  \/ \E i \in DOMAIN cmds : RunCmd(i)
  \/ Deliver

SpecRedo == InitRedo /\ [][NextRedo]_vars

\* The store holds for the task of an undo record what redo of the record
\* writes: the row of NewTask for an update or a toggle, the row of Task for
\* a create, no row for a delete, the parent of NewTask for a reparenting.
AsRedone(action) ==
  LET id == action.TaskID
  IN CASE action.Type \in {"update", "toggleStatus"} ->
            id \in DOMAIN db.tasks =>
              RowFields(db.tasks[id]) = TaskFields(action.NewTask)
       [] action.Type = "create" ->
            id \in DOMAIN db.tasks =>
              RowFields(db.tasks[id]) = TaskFields(action.Task)
       [] action.Type = "delete" -> id \notin DOMAIN db.tasks
       [] action.Type = "setParent" ->
            id \in DOMAIN db.tasks =>
              db.tasks[id].parent =
                (IF action.NewTask # NoTask THEN action.NewTask.ParentID ELSE NoId)
       [] OTHER -> TRUE

\* the commands of executeRedo (a key that pushes the record that was just
\* undone moves the stacks as redo does, and issues another command)
RedoCommands == {"restoreTask", "restoreTaskState", "deleteTaskByID", "setTaskParent"}

\* C20: undo and then redo, both store calls succeeding, leave every task
\* with the title, status, priority, project, parent and due date it had, also
\* when actions that record nothing were applied to the task after the
\* recorded one.  Redo of a record writes the fields of the record's snapshot
\* and nothing else, so the store comes back to what it was exactly when, at
\* the moment of the undo, it holds for the record's task what redo writes.
C20_RedoUndoIdentity ==
  /\ [][Undone => AsRedone(Top(v.undoStack))]_vars
  /\ [][(Redone /\ cmds' # <<>> /\ cmds'[1].kind \in RedoCommands) =>
          LET action == Top(v.redoStack)
          IN action.Type \in {"update", "toggleStatus"} =>
               cmds' = <<RestoreTaskStateCmd(action.NewTask)>>]_vars
  /\ [][Runs("restoreTaskState") =>
          \A id \in DOMAIN db'.tasks :
            RowFields(db'.tasks[id]) =
              IF id = cmds[1].task.ID THEN TaskFields(cmds[1].task)
              ELSE RowFields(db.tasks[id])]_vars

\* The same for an undo that finds the task as the recorded action left it.
RedoUndoOfLastWrite ==
  [][(Undone /\ Top(v.undoStack).Type \in {"update", "toggleStatus"}
      /\ Top(v.undoStack).TaskID \in DOMAIN db.tasks
      /\ db.tasks[Top(v.undoStack).TaskID].project =
           Top(v.undoStack).NewTask.ProjectID)
       => AsRedone(Top(v.undoStack))]_vars

\* -------------------------------------------------------- toggling twice

\* One top-level task of each status a toggle can meet.
StoreStatuses ==
  Store(<<Row(<<"x">>, "backlog", "medium", 1, NoId, NoTime, NoPos, 4),
          Row(<<"x">>, "pending", "medium", 1, NoId, NoTime, NoPos, 3),
          Row(<<"x">>, "in_progress", "medium", 1, NoId, NoTime, NoPos, 2),
          Row(<<"x">>, "done", "medium", 1, NoId, RecentTime, NoPos, 1)>>,
        {},
        {})

\* The keys of a user who moves the cursor and toggles the task under it.
ToggleKeys == {"tab", "down", "up", "G"}

InitToggle == InitWith({StoreStatuses}, 0)

\* The user waits until nothing is in flight.
NextToggle ==
  \/ \E key \in ToggleKeys : Quiet /\ Press(key)
  \/ \E i \in DOMAIN cmds : RunCmd(i)
  \/ Deliver

SpecToggle == InitToggle /\ [][NextToggle]_vars

\* The two toggles of this run were both of the task id, and both have run.
ToggledTwice(id) ==
  /\ Quiet
  /\ Len(v.undoStack) = 2
  /\ \A k \in 1..2 : /\ v.undoStack[k].Type = "toggleStatus"
                     /\ v.undoStack[k].TaskID = id

\* C21: a task toggled twice has the status and the completed_at it had
\* before, whatever its status was (backlog, pending, in progress, done).
C21_ToggleTwice ==
  \A id \in DOMAIN db.tasks :
    ToggledTwice(id) =>
      /\ db.tasks[id].status = StoreStatuses.tasks[id].status
      /\ db.tasks[id].completed = StoreStatuses.tasks[id].completed

\* The same for a task that was pending.
PendingToggledTwice ==
  \A id \in DOMAIN db.tasks :
    (ToggledTwice(id) /\ StoreStatuses.tasks[id].status = "pending") =>
      /\ db.tasks[id].status = "pending"
      /\ db.tasks[id].completed = NoTime

\* --------------------------------------------------------- deferred resort

\* The keys of a user who cycles priorities and moves the cursor.
DeferKeys == {"p", "down", "up", "g", "G"}

InitDefer == InitWith({StoreOrder}, 0)

\* The user waits until nothing is in flight.
NextDefer ==
  \/ \E key \in DeferKeys : Quiet /\ Press(key)
  \/ \E i \in DOMAIN cmds : RunCmd(i)
  \/ Deliver

SpecDefer == InitDefer /\ [][NextDefer]_vars

\* the rows of ts that hold the task id
RowsOf(ts, id) == {k \in DOMAIN ts : ts[k].ID = id}

\* the cursor is on a row of the task whose resort is pending
OnPendingRow(w) ==
  /\ w.deferResortTaskID # NoId
  /\ w.cursor < Len(w.tasks)
  /\ w.tasks[w.cursor + 1].ID = w.deferResortTaskID

\* the step is a key that issues a reload
ReloadIssued ==
  /\ cmds = <<>>
  /\ cmds' = <<Cmd("loadTasks")>>

\* C22: while the resort of a task is pending the task keeps its row; the
\* resort stops being pending only by a step in which the cursor leaves the
\* task's row, and that step issues a reload; the reload leaves the tasks in
\* the order of the sort key.
C22_DeferredResort ==
  /\ [][(v.deferResortTaskID # NoId /\ v'.deferResortTaskID = v.deferResortTaskID)
          => RowsOf(v'.tasks, v.deferResortTaskID) = RowsOf(v.tasks, v.deferResortTaskID)]_vars
  /\ [][(v.deferResortTaskID # NoId /\ v'.deferResortTaskID # v.deferResortTaskID)
          => /\ OnPendingRow(v)
             /\ v'.cursor # v.cursor
             /\ ReloadIssued]_vars
  /\ [][(OnPendingRow(v) /\ v'.cursor # v.cursor /\ v'.tasks = v.tasks)
          => /\ v'.deferResortTaskID = NoId
             /\ ReloadIssued]_vars
  /\ [][ReloadAdopted =>
          \A i, j \in DOMAIN v'.allTasks :
            i < j => LexLeq(SortKey(Head(msgs).asOf[v'.allTasks[i].ID]),
                            SortKey(Head(msgs).asOf[v'.allTasks[j].ID]))]_vars

\* -------------------------------------------------- failures of store writes

\* the store may fail one statement of a user who creates, edits, toggles,
\* cycles priorities and deletes
InitFail == InitWith({StorePair}, MaxFaults)

SpecFail == InitFail /\ [][NextRecord]_vars

\* the results of the create, update, delete and priority commands
MutationResults == {"taskCreated", "taskUpdated", "taskDeleted", "priorityChangedLocal"}

\* Update handles a message of one of the kinds
Handled(kinds) ==
  /\ msgs # <<>>
  /\ msgs' = Tail(msgs)
  /\ Head(msgs).kind \in kinds

\* C23: a create, update, delete or priority store call that failed is shown
\* to the user.  The handler of the failed result sets a status message or
\* issues the error message, and the handler of the error message sets a
\* message the view displays, unless the error is that of a reload, which the
\* status message already shows.  (The list displays statusMsg; the root model
\* displays its own errorMsg, which only its case ui.ErrorMsg writes, a type
\* no command of the list returns.)
C23_FailureShown ==
  /\ [][(Handled(MutationResults) /\ Head(msgs).err)
          => \/ v'.statusMsg # v.statusMsg
             \/ cmds' = <<Cmd("error")>>]_vars
  /\ [][Handled({"error"})
          => \/ v'.statusMsg # v.statusMsg
             \/ v.statusMsg = <<"Error loading tasks">>]_vars

\* ------------------------------------------- keys while a toggle is in flight

\* The keys of a user who toggles and goes on selecting.
RaceKeys == {"tab", " ", "V", "down"}

InitRace == InitWith({StorePair}, 0)

\* The user does not wait: keys are handled while commands are in flight.
NextRace ==
  \/ \E key \in RaceKeys : Press(key)
  \/ \E i \in DOMAIN cmds : RunCmd(i)
  \/ Deliver

SpecRace == InitRace /\ [][NextRace]_vars

\* a toggleSelected command runs
ToggleRuns ==
  \E i \in DOMAIN cmds :
    /\ cmds[i].kind = "toggleSelected"
    /\ cmds' = [k \in 1..(Len(cmds) - 1) |-> IF k < i THEN cmds[k] ELSE cmds[k + 1]]
    /\ Len(msgs') = Len(msgs) + 1

\* the tasks for which handlers of Tab have pushed a toggle record
ToggleRecorded ==
  {v.undoStack[k].TaskID :
     k \in {j \in DOMAIN v.undoStack : v.undoStack[j].Type = "toggleStatus"}}

\* C24: the toggle command flips the tasks that were the targets when Tab was
\* handled, whatever keys are handled before it runs: every task whose status
\* it flips has a toggle record on the undo stack.
C24_ToggleFlipsTargets ==
  [][ToggleRuns => WrittenIDs \subseteq ToggleRecorded]_vars

\* ------------------------------------------------- the command palette's lines

\* The lines a user has typed after the colon: every name and alias of the
\* table alone, some of them with an argument, prefixes of names, and words
\* the table does not hold.
TableWords ==
  UNION {{AllCommands[i].Name} \cup Range(AllCommands[i].Aliases) :
           i \in DOMAIN AllCommands}

TypedLines ==
  TableWords
    \cup {word \o <<" ", "h", "i", "g", "h">> :
            word \in {<<"p", "r", "i", "o", "r", "i", "t", "y">>, <<"p", "r", "i">>, <<"p">>, <<"p", "r", "o", "j", "e", "c", "t">>, <<"p", "r", "o", "j">>,
                      <<"m", "v">>, <<"m", "o", "v", "e">>, <<"d", "o", "n", "e">>, <<"f", "i", "n", "i", "s", "h">>, <<"c", "o", "m", "p", "l", "e", "t", "e">>,
                      <<"d", "e", "l", "e", "t", "e">>, <<"r", "m">>, <<"s", "o", "r", "t">>, <<"a", "r", "c", "h", "i", "v", "e">>, <<"c", "l", "e", "a", "r">>,
                      <<"f", "i", "l", "t", "e", "r">>, <<"f">>}}
    \cup {<<"a", "r">>, <<"d", "e">>, <<"x">>, <<"z", "z">>, <<"z", "z", " ", "h", "i", "g", "h">>, <<"u", "n", "d", "o">>, <<"q", "u", "i", "t", " ", "1">>,
          <<"N", "o", "p", "e">>}

\* the view after the colon and the line, typed key by key: each key sets the
\* input and calls updateCommandSuggestions
Typed(line) ==
  UpdateCommandSuggestions(
    [HandleKey(NewListView, ":", <<>>, StartTime).v EXCEPT !.input = line])

\* The keys of a user at the palette.
CommandKeys ==
  IF v.mode = "command" THEN {"enter", "esc", "down"} ELSE {}

InitCommand ==
  /\ v \in {Typed(line) : line \in TypedLines}
  /\ db = StorePair
  /\ cmds = <<Cmd("loadTasks")>>
  /\ msgs = <<>>
  /\ created = 0
  /\ faults = MaxFaults
  /\ ld = Idle
  /\ conn = "free"
  /\ running = TRUE

\* The user waits until nothing is in flight.
NextCommand ==
  \/ \E key \in CommandKeys : Quiet /\ Press(key)
  \/ \E i \in DOMAIN cmds : RunCmd(i)
  \/ Deliver

SpecCommand == InitCommand /\ [][NextCommand]_vars

\* the verb executeCommand reads from a line
Verb(line) == ToLower(Fields(line)[1])

\* the table's entries that hold the word as name or alias
EntriesOf(word) ==
  {i \in DOMAIN AllCommands :
     word = AllCommands[i].Name \/ word \in Range(AllCommands[i].Aliases)}

\* C25: Enter on a command line whose verb is no name and no alias of the
\* table sets the status message "Unknown command", returns no command (so no
\* store call), changes nothing else of the controller (tasks, filters,
\* selection, undo and redo stacks), and leaves it in Normal mode with no
\* selector active.
C25_UnknownCommand ==
  \A order \in MapOrders(v.selected) :
    (/\ v.mode = "command"
     /\ CommandLine(v) # <<>>
     /\ EntriesOf(Verb(CommandLine(v))) = {})
    => LET r == RootUpdate(v, "enter", order, Now)
       IN /\ r.cmd = NoCmd
          /\ r.v = [v EXCEPT !.mode = "normal", !.cmdSuggestions = <<>>,
                             !.cmdCursor = 0,
                             !.statusMsg = <<"Unknown command",
                                             Verb(CommandLine(v))>>]
          /\ r.v.mode = "normal"
          /\ ActiveSelectors(r.v) = {}

\* C25 happens: the line "zz high" was executed over the loaded list.
C25_Witness ==
  /\ v.mode = "normal"
  /\ v.statusMsg = <<"Unknown command", <<"z", "z">>>>
  /\ v.input = <<"z", "z", " ", "h", "i", "g", "h">>
  /\ Len(v.tasks) = 2
  /\ Quiet

\* the typed line, its verb replaced by the word
WithVerb(line, word) ==
  LET command == TrimSpace(line)
  IN word \o SubSeq(command, FirstSpace(command), Len(command))

\* C26: for every entry of the table, Enter on a line whose verb is the
\* entry's name or one of its aliases, with arguments or alone with the first
\* suggestion selected, is not answered with "Unknown command" and does what
\* executeCommand does for the entry's name.
C26_AliasesDispatched ==
  \A order \in MapOrders(v.selected) :
    \A i \in DOMAIN AllCommands :
      (/\ v.mode = "command"
       /\ v.cmdCursor = 0
       /\ TrimSpace(v.input) # <<>>
       /\ i \in EntriesOf(Verb(v.input)))
      => LET r == RootUpdate(v, "enter", order, Now)
             left == [v EXCEPT !.mode = "normal", !.cmdSuggestions = <<>>,
                               !.cmdCursor = 0]
             named == ExecuteCommand(left,
                                     WithVerb(v.input, AllCommands[i].Name),
                                     order, Now)
         IN /\ Head(r.v.statusMsg \o <<"">>) # "Unknown command"
            /\ r = named

\* the names and aliases of the table that executeCommand has no case for,
\* and the alias that is a prefix of an earlier entry's alias
Undispatched ==
  {<<"m", "o", "v", "e">>, <<"f", "i", "n", "i", "s", "h">>, <<"d", "e", "l", "e", "t", "e">>, <<"d", "e", "l">>, <<"r", "m">>}

\* The same for the other words of the table: each is dispatched to its
\* entry's command, except that f alone selects the suggestion done.
DispatchedInSwitch ==
  \A order \in MapOrders(v.selected) :
    \A i \in DOMAIN AllCommands :
      (/\ v.mode = "command"
       /\ v.cmdCursor = 0
       /\ TrimSpace(v.input) # <<>>
       /\ i \in EntriesOf(Verb(v.input))
       /\ Verb(v.input) \notin Undispatched
       /\ TrimSpace(v.input) # <<"f">>)
      => LET r == RootUpdate(v, "enter", order, Now)
             left == [v EXCEPT !.mode = "normal", !.cmdSuggestions = <<>>,
                               !.cmdCursor = 0]
         IN /\ Head(r.v.statusMsg \o <<"">>) # "Unknown command"
            /\ r = ExecuteCommand(left, WithVerb(v.input, AllCommands[i].Name),
                                  order, Now)

\* ------------------------------------------------------ the projects table

\* INSERT INTO projects (id, ...) VALUES ('inbox', ...): the id of the row the
\* migration inserts; DbProjects lists it first
Inbox == 1

\* the projects a store of this section starts with: inbox and two others
ProjectIDs == {Inbox, 2, 3}

\* a store with a projects table: the ids of its rows
StoreWithProjects(rows, projects) ==
  [tasks |-> rows, taskTags |-> {}, deps |-> {}, projects |-> projects]

\* DB.DeleteProject: in one transaction UPDATE tasks SET project_id = 'inbox'
\* WHERE project_id = ?, then DELETE FROM projects WHERE id = ?.  The
\* connection is opened with _foreign_keys=ON and tasks.project_id REFERENCES
\* projects(id) ON DELETE SET NULL: the UPDATE fails when it moves a row to an
\* inbox that does not exist (the transaction is rolled back), and the DELETE
\* sets the project of the rows still referencing the deleted project to NULL.
DeleteProject(d, id) ==
  LET moves == {t \in DOMAIN d.tasks : d.tasks[t].project = id}
      moved == [d EXCEPT !.tasks =
                  [t \in DOMAIN d.tasks |->
                     IF t \in moves THEN [d.tasks[t] EXCEPT !.project = Inbox]
                     ELSE d.tasks[t]]]
      deleted == [moved EXCEPT
                    !.projects = @ \ {id},
                    !.tasks = [t \in DOMAIN moved.tasks |->
                                 IF moved.tasks[t].project = id
                                   THEN [moved.tasks[t] EXCEPT !.project = NoId]
                                   ELSE moved.tasks[t]]]
  IN IF moves # {} /\ Inbox \notin d.projects
       THEN [db |-> d, err |-> TRUE]
       ELSE [db |-> deleted, err |-> FALSE]

\* Three tasks, each in one of the projects or in none.
InitProjects ==
  /\ v = NewListView
  /\ \E p1 \in ProjectIDs \cup {NoId}, p2 \in ProjectIDs \cup {NoId},
        p3 \in ProjectIDs \cup {NoId} :
       db = StoreWithProjects(
              <<Row(<<"x">>, "pending", "medium", p1, NoId, NoTime, NoPos, 3),
                Row(<<"x">>, "pending", "medium", p2, NoId, NoTime, NoPos, 2),
                Row(<<"x">>, "pending", "medium", p3, NoId, NoTime, NoPos, 1)>>,
              ProjectIDs)
  /\ cmds = <<>>
  /\ msgs = <<>>
  /\ created = 0
  /\ faults = MaxFaults
  /\ ld = Idle
  /\ conn = "free"
  /\ running = TRUE

\* a caller of the store deletes a project, by an id the table holds or not;
\* an error comes back as a message
CallDeleteProject(id) ==
  LET out == DeleteProject(db, id)
  IN /\ db' = out.db
     /\ msgs' = IF out.err THEN <<ErrMsg("error")>> ELSE <<>>
     /\ UNCHANGED <<v, cmds, created, faults, ld, conn, running>>

NextProjects == \E id \in ProjectIDs : CallDeleteProject(id)

SpecProjects == InitProjects /\ [][NextProjects]_vars

\* C27: no call of DeleteProject removes the inbox project: the projects
\* table holds the inbox row in every reachable state.
C27_InboxKept == Inbox \in db.projects

\* What the store does keep: every task references a project of the table or
\* none, whichever projects are deleted.
ReferencesExist ==
  \A t \in DOMAIN db.tasks :
    db.tasks[t].project = NoId \/ db.tasks[t].project \in db.projects

\* ------------------------------------------------- dependencies and subtasks

\* The keys of a user who manages dependencies and parents.
DepKeys ==
  IF v.selectingDep \/ v.selectingParent THEN {"enter", "esc"}
  ELSE {"b", "P", "down"}

InitDeps == InitWith({StorePair}, 0)

\* The user waits until nothing is in flight.
NextDeps ==
  \/ \E key \in DepKeys : Quiet /\ Press(key)
  \/ \E i \in DOMAIN cmds : RunCmd(i)
  \/ Deliver

SpecDeps == InitDeps /\ [][NextDeps]_vars

\* the tasks of the store that have a parent and depend on another task
DependentSubtasks ==
  {t \in DOMAIN db.tasks :
     /\ db.tasks[t].parent # NoId
     /\ \E d \in db.deps : d[1] = t}

\* C28: in every reachable store state no task that has a parent is the
\* dependent side of a dependency.
C28_NoDependentSubtask == DependentSubtasks = {}

\* The half that key b enforces: the dependency selector is open only for a
\* task that has no parent, so a dependency is added to top-level tasks only.
DependencyAddedToTopLevel ==
  /\ [](v.selectingDep => FindTask(v.allTasks, v.depTaskID).ParentID = NoId)
  /\ [][\A d \in db'.deps \ db.deps : db.tasks[d[1]].parent = NoId]_vars

\* ------------------------------------------------------- quick add (the CLI)

\* Times are days here; time.Weekday: Sunday is 0.
Weekday(day) == day % 7

\* nextWeekday: the next day of that weekday after today, a week on when today
\* is that weekday
NextWeekday(day, now) ==
  LET daysUntil == day - Weekday(now)
  IN <<"day", now + (IF daysUntil <= 0 THEN daysUntil + 7 ELSE daysUntil)>>

Digits == <<"0", "1", "2", "3", "4", "5", "6", "7", "8", "9">>

IsDigits(s) == \A i \in DOMAIN s : \E k \in 1..10 : Digits[k] = s[i]

RECURSIVE Atoi(_)
Atoi(s) ==
  IF s = <<>> THEN 0
  ELSE 10 * Atoi(SubSeq(s, 1, Len(s) - 1))
       + (CHOOSE k \in 0..9 : Digits[k + 1] = s[Len(s)])

\* the days of a month (time.Parse rejects a day out of range)
DaysIn(month, year) ==
  IF month = 2
    THEN IF year % 4 = 0 /\ (year % 100 # 0 \/ year % 400 = 0) THEN 29 ELSE 28
  ELSE IF month \in {4, 6, 9, 11} THEN 30
  ELSE 31

\* time.Parse with a layout of fixed-width numbers: year, month and day at the
\* given places of a ten-character value, separated by sep; a year of 0 is
\* replaced by the current year
ParseNumeric(s, sep, yearAt, monthAt, dayAt, sepAt) ==
  LET year == SubSeq(s, yearAt, yearAt + 3)
      month == SubSeq(s, monthAt, monthAt + 1)
      day == SubSeq(s, dayAt, dayAt + 1)
  IN IF /\ Len(s) = 10
        /\ \A i \in sepAt : s[i] = sep
        /\ IsDigits(year) /\ IsDigits(month) /\ IsDigits(day)
        /\ Atoi(month) \in 1..12
        /\ Atoi(day) \in 1..DaysIn(Atoi(month), Atoi(year))
       THEN IF Atoi(year) = 0
              THEN <<"thisYear", Atoi(month), Atoi(day)>>
              ELSE <<"date", Atoi(year), Atoi(month), Atoi(day)>>
       ELSE <<>>

\* parseNaturalDate: <<>> is nil.  The layouts "Jan 2" and "Jan 2, 2006" hold
\* a space and match no single word.
ParseNaturalDate(s, now) ==
  LET word == ToLower(s)
      iso == ParseNumeric(s, "-", 1, 6, 9, {5, 8})
      slashed == ParseNumeric(s, "/", 7, 1, 4, {3, 6})
      dashed == ParseNumeric(s, "-", 7, 1, 4, {3, 6})
  IN CASE word = <<"t", "o", "d", "a", "y">> -> <<"day", now>>
       [] word \in {<<"t", "o", "m", "o", "r", "r", "o", "w">>, <<"t", "o", "m">>} -> <<"day", now + 1>>
       [] word \in {<<"m", "o", "n", "d", "a", "y">>, <<"m", "o", "n">>} -> NextWeekday(1, now)
       [] word \in {<<"t", "u", "e", "s", "d", "a", "y">>, <<"t", "u", "e">>} -> NextWeekday(2, now)
       [] word \in {<<"w", "e", "d", "n", "e", "s", "d", "a", "y">>, <<"w", "e", "d">>} -> NextWeekday(3, now)
       [] word \in {<<"t", "h", "u", "r", "s", "d", "a", "y">>, <<"t", "h", "u">>} -> NextWeekday(4, now)
       [] word \in {<<"f", "r", "i", "d", "a", "y">>, <<"f", "r", "i">>} -> NextWeekday(5, now)
       [] word \in {<<"s", "a", "t", "u", "r", "d", "a", "y">>, <<"s", "a", "t">>} -> NextWeekday(6, now)
       [] word \in {<<"s", "u", "n", "d", "a", "y">>, <<"s", "u", "n">>} -> NextWeekday(0, now)
       [] word = <<"n", "e", "x", "t", "w", "e", "e", "k">> -> <<"day", now + 7>>
       [] OTHER -> IF iso # <<>> THEN iso
                   ELSE IF slashed # <<>> THEN slashed
                   ELSE dashed

\* the priority a word after "!" names when no abbreviation is known
QuickPriorityInFull(priority) ==
  CASE priority = <<"l", "o", "w">> -> "low"
    [] priority = <<"m", "e", "d", "i", "u", "m">> -> "medium"
    [] priority = <<"h", "i", "g", "h">> -> "high"
    [] priority = <<"u", "r", "g", "e", "n", "t">> -> "urgent"
    [] OTHER -> ""

\* the priority a word after "!" names, "" when it names none
QuickPriority(priority) ==
  CASE priority \in {<<"l", "o", "w">>, <<"l">>} -> "low"
    [] priority \in {<<"m", "e", "d", "i", "u", "m">>, <<"m", "e", "d">>, <<"m">>} -> "medium"
    [] priority \in {<<"h", "i", "g", "h">>, <<"h", "i">>, <<"h">>} -> "high"
    [] priority \in {<<"u", "r", "g", "e", "n", "t">>, <<"u">>} -> "urgent"
    [] OTHER -> ""

\* Body of the value, which is evaluated once
With(value, Body(_)) == CHOOSE r \in {Body(x) : x \in {value}} : TRUE

\* the loop of parseQuickAdd over the words left
RECURSIVE QuickAddWords(_, _, _)
QuickAddWords(words, task, now) ==
  IF words = <<>> THEN task
  ELSE LET word == Head(words)
           priority == QuickPriority(ToLower(TrimPrefix(word, <<"!">>)))
           parsed == ParseNaturalDate(TrimPrefix(ToLower(word), <<"d", "u", "e", ":">>), now)
           title == [task EXCEPT !.titleParts = Append(@, word)]
           next ==
             CASE HasPrefix(word, <<"#">>) ->
                    [task EXCEPT !.parsedProject = TrimPrefix(word, <<"#">>)]
               [] HasPrefix(word, <<"@">>) ->
                    [task EXCEPT !.parsedTags = Append(@, word)]
               [] HasPrefix(word, <<"!">>) ->
                    IF priority # "" THEN [task EXCEPT !.Priority = priority]
                    ELSE title
               [] HasPrefix(ToLower(word), <<"d", "u", "e", ":">>) ->
                    IF parsed # <<>> THEN [task EXCEPT !.DueDate = parsed]
                    ELSE title
               [] OTHER -> title
       IN With(next, LAMBDA task1 : QuickAddWords(Tail(words), task1, now))

\* parseQuickAdd (the uuid of the task is left out)
ParseQuickAdd(text, now) ==
  With(Fields(text), LAMBDA words :
    With(QuickAddWords(words,
                       [Priority |-> "medium", DueDate |-> <<>>,
                        parsedTags |-> <<>>, parsedProject |-> <<>>,
                        titleParts |-> <<>>], now),
         LAMBDA task :
           [Title |-> Join(task.titleParts), Priority |-> task.Priority,
            DueDate |-> task.DueDate, parsedTags |-> task.parsedTags,
            parsedProject |-> task.parsedProject]))

\* handleAdd's loop over the tags: INSERT OR IGNORE INTO tags (id is the
\* primary key, name is UNIQUE), then INSERT OR IGNORE INTO task_tags, which
\* the foreign key refuses when the tag is absent; errors are not looked at
RECURSIVE AddTags(_, _, _)
AddTags(d, id, names) ==
  IF names = <<>> THEN d
  ELSE LET tagName == Head(names)
           tagID == ToLower(TrimPrefix(tagName, <<"@">>))
           tags == IF \E t \in d.tags : t.id = tagID \/ t.name = tagName
                     THEN d.tags
                     ELSE d.tags \cup {[id |-> tagID, name |-> tagName]}
           taskTags == IF \E t \in tags : t.id = tagID
                         THEN d.taskTags \cup {<<id, tagID>>}
                         ELSE d.taskTags
       IN AddTags([d EXCEPT !.tags = tags, !.taskTags = taskTags], id, Tail(names))

\* handleAdd on the store d: the project is found by its lower-cased name or
\* inserted (OR IGNORE) with the lower-cased name as id, the task is inserted,
\* and the tags are inserted and linked.  Projects and tags are [id, name].
HandleAdd(d, text, id, now) ==
  With(ParseQuickAdd(text, now), LAMBDA task :
    LET existing == {p \in d.projects :
                       ToLower(p.name) = ToLower(task.parsedProject)}
        projectID ==
          IF task.parsedProject = <<>> THEN <<"i", "n", "b", "o", "x">>
          ELSE IF existing # {} THEN (CHOOSE p \in existing : TRUE).id
          ELSE ToLower(task.parsedProject)
        inserted ==
          [d EXCEPT
             !.projects =
               IF task.parsedProject # <<>> /\ existing = {}
                    /\ ~\E p \in d.projects : p.id = projectID
                 THEN @ \cup {[id |-> projectID, name |-> task.parsedProject]}
                 ELSE @,
             !.tasks = Append(@, [id |-> id, title |-> task.Title,
                                  status |-> "pending",
                                  priority |-> task.Priority,
                                  project |-> projectID, due |-> task.DueDate,
                                  created |-> now])]
    IN AddTags(inserted, id, task.parsedTags))

\* Words of a sentence: plain words, project and tag words, priorities the
\* parser knows and does not know, dates it can and cannot parse.
QuickWords ==
  {<<"f", "i", "x">>, <<"b", "u", "g">>, <<"#", "w", "o", "r", "k">>, <<"#", "H", "o", "m", "e">>, <<"#">>, <<"@", "u", "r", "g", "e", "n", "t">>, <<"@", "U", "r", "g", "e", "n", "t">>,
   <<"!", "h", "i", "g", "h">>, <<"!", "L">>, <<"!", "m", "e", "d">>, <<"!", "s", "o", "o", "n">>, <<"!">>, <<"d", "u", "e", ":", "t", "o", "m", "o", "r", "r", "o", "w">>,
   <<"D", "u", "e", ":", "f", "r", "i">>, <<"d", "u", "e", ":", "2", "0", "2", "4", "-", "0", "2", "-", "2", "9">>, <<"d", "u", "e", ":", "0", "2", "/", "3", "0", "/", "2", "0", "2", "4">>, <<"d", "u", "e", ":", "s", "o", "m", "e", "d", "a", "y">>,
   <<"d", "u", "e", ":">>, <<"o", "v", "e", "r", "d", "u", "e", ":", "t", "o", "d", "a", "y">>}

\* the longest sentence, in words
MaxWords == 2

RECURSIVE SentencesOf(_)
SentencesOf(n) ==
  IF n = 0 THEN {<<>>}
  ELSE SentencesOf(n - 1)
         \cup {s \o <<word>> : s \in SentencesOf(n - 1), word \in QuickWords}

\* The sentences handleAdd is given: the arguments joined by single spaces,
\* and two arguments that hold spaces of their own.
Sentences ==
  {Join(s) : s \in SentencesOf(MaxWords) \ {<<>>}}
    \cup {<<" ", " ", "f", "i", "x", " ", " ", " ", "t", "h", "e", " ", " ", "!", "h", "i", "g", "h", " ", "b", "u", "g", " ">>, <<"a", " ", "#", "b", " ", " ", "#", "c", " ", "@", "d", " ", " ", "@", "e", " ", "!", "u", " ", "!", "x", " ", "d", "u", "e", ":", "s", "u", "n", " ", "d", "u", "e", ":", "m", "o", "n">>}

\* The process klonch add has started with a sentence as its arguments, on a
\* store that holds the inbox project and no task.
InitQuickAdd ==
  /\ v = NewListView
  /\ db = [tasks |-> <<>>, tags |-> {}, taskTags |-> {},
           projects |-> {[id |-> <<"i", "n", "b", "o", "x">>, name |-> <<"I", "n", "b", "o", "x">>]}]
  /\ \E text \in Sentences : cmds = <<[kind |-> "add", text |-> text]>>
  /\ msgs = <<>>
  /\ created = 0
  /\ faults = MaxFaults
  /\ ld = Idle
  /\ conn = "free"
  /\ running = TRUE

\* handleAdd runs to its end
RunAdd ==
  /\ created = 0
  /\ db' = HandleAdd(db, cmds[1].text, NewId, Now)
  /\ created' = 1
  /\ UNCHANGED <<v, cmds, msgs, faults, ld, conn, running>>

NextQuickAdd == RunAdd

SpecQuickAdd == InitQuickAdd /\ [][NextQuickAdd]_vars

\* the words of the sentence, split at spaces
WordsOf(text) == Fields(text)

\* what the words say a word is
IsProjectWord(word) == word # <<>> /\ word[1] = "#"
IsTagWord(word) == word # <<>> /\ word[1] = "@"
IsPriorityWord(word) ==
  /\ word # <<>> /\ word[1] = "!"
  /\ ToLower(Tail(word)) \in
       {<<"l", "o", "w">>, <<"l">>, <<"m", "e", "d", "i", "u", "m">>, <<"m", "e", "d">>, <<"m">>, <<"h", "i", "g", "h">>, <<"h", "i">>, <<"h">>,
        <<"u", "r", "g", "e", "n", "t">>, <<"u">>}
IsDueWord(word) ==
  /\ Len(word) >= 4 /\ ToLower(SubSeq(word, 1, 4)) = <<"d", "u", "e", ":">>
  /\ ParseNaturalDate(SubSeq(ToLower(word), 5, Len(word)), StartTime) # <<>>
Consumed(word) ==
  IsProjectWord(word) \/ IsTagWord(word) \/ IsPriorityWord(word) \/ IsDueWord(word)

\* the last word of a kind, <<>> when there is none
LastWord(words, Is(_)) ==
  LET of == SelectSeq(words, Is)
  IN IF of = <<>> THEN <<>> ELSE of[Len(of)]

\* a word without its marker
Rest(word) == IF word = <<>> THEN <<>> ELSE Tail(word)

\* C29: the task klonch add inserts has as title the words of the sentence that
\* are no project word, tag word, recognised priority word or parseable due
\* word, in their order and joined by single spaces; its project is named by
\* the last project word (inbox without one), its priority by the last
\* recognised priority word (medium without one), its due date by the last
\* parseable due word (none without one), and its tags are the tag words.
C29_QuickAddParse ==
  created = 1 =>
    LET words == WordsOf(cmds[1].text)
        task == db.tasks[1]
        project == Rest(LastWord(words, IsProjectWord))
        priority == ToLower(Rest(LastWord(words, IsPriorityWord)))
        due == LastWord(words, IsDueWord)
    IN /\ task.title = Join(SelectSeq(words, LAMBDA word : ~Consumed(word)))
       /\ task.project = IF project = <<>> THEN <<"i", "n", "b", "o", "x">> ELSE ToLower(project)
       /\ task.priority =
            (IF priority = <<>> THEN "medium"
             ELSE CHOOSE p \in {"low", "medium", "high", "urgent"} :
                    PriorityText(p)[1] = priority[1])
       /\ task.due = IF due = <<>> THEN <<>>
                     ELSE ParseNaturalDate(SubSeq(ToLower(due), 5, Len(due)),
                                           StartTime)
       /\ {link[2] : link \in db.taskTags} =
            {ToLower(Tail(word)) : word \in {w \in Range(words) : IsTagWord(w)}}
       /\ \E p \in db.projects : p.id = task.project

\* C29 happens: a sentence with two projects, two tags, a priority, an
\* unknown priority and two dates was added.
C29_Witness ==
  /\ created = 1
  /\ Len(WordsOf(cmds[1].text)) = 9
  /\ db.tasks[1].title = <<"a", " ", "!", "x">>
  /\ db.tasks[1].project = <<"c">>
  /\ db.tasks[1].priority = "urgent"
  /\ db.tasks[1].due = NextWeekday(1, StartTime)
  /\ Cardinality(db.taskTags) = 2

\* ------------------------------------------------ the reload of a cursor key

\* the step is a cursor key of SpecDefer: a key pressed when nothing is in
\* flight that issues no write (key p issues one)
CursorKeyStep ==
  /\ Quiet
  /\ cmds' \in {<<>>, <<Cmd("loadTasks")>>}

\* the cursor leaves the row of the task whose resort is pending
LeavesPendingRow ==
  /\ OnPendingRow(v)
  /\ v'.cursor # v.cursor

\* C30: a cursor key issues a reload exactly when a resort is pending, the
\* cursor was on the row of that task and the cursor leaves the row; a key
\* that issues the reload clears the marker, and every other cursor key
\* leaves the marker as it was.
C30_ReloadIffLeaving ==
  [][CursorKeyStep
       => /\ ReloadIssued <=> LeavesPendingRow
          /\ ReloadIssued => v'.deferResortTaskID = NoId
          /\ ~ReloadIssued => v'.deferResortTaskID = v.deferResortTaskID]_vars

\* What checkDeferredResort does: a cursor key issues the reload exactly when
\* a resort is pending and the cursor was on the row of that task, whether or
\* not the cursor moves; then the marker is cleared, otherwise kept.  Stated
\* for the steps that change the view or issue a command.
ReloadIffOnPendingRow ==
  [][(CursorKeyStep /\ (ReloadIssued \/ v'.cursor # v.cursor))
       => /\ ReloadIssued <=> OnPendingRow(v)
          /\ ReloadIssued => v'.deferResortTaskID = NoId
          /\ ~ReloadIssued => v'.deferResortTaskID = v.deferResortTaskID]_vars

\* ---------------------------------------------------- confirming a delete

\* the keys pressed at the confirmation
ConfirmKeys ==
  {"y", "Y", "n", "N", "esc", "enter", "q", "d", "tab", " ", "p", "x",
   "ctrl+z", "down"}

\* The keys of a user who selects, asks for a delete and answers.
DeleteKeys ==
  IF v.mode = "confirmDelete" THEN ConfirmKeys ELSE {"d", " ", "down", "p"}

InitConfirm == InitWith({StoreTree}, 0)

\* The user waits until nothing is in flight.
NextConfirm ==
  \/ \E key \in DeleteKeys : Quiet /\ Press(key)
  \/ \E i \in DOMAIN cmds : RunCmd(i)
  \/ Deliver

SpecConfirm == InitConfirm /\ [][NextConfirm]_vars

\* what the key does at the confirmation, for one order of the range over
\* the selection
Answer(key, order) == RootUpdate(v, key, order, Now)

\* the key leaves the mode, the pending ids and the undo stack as they are
\* and issues no command
Ignored(key, order) ==
  /\ Answer(key, order).cmd = NoCmd
  /\ Answer(key, order).v.mode = v.mode
  /\ Answer(key, order).v.deleteIDs = v.deleteIDs
  /\ Answer(key, order).v.undoStack = v.undoStack

\* C31: at the confirmation only y and Y delete (the command deleteTasks for
\* the pending ids is issued), only n and N cancel (Normal mode, no pending
\* ids, no command), and every other key leaves the mode, the pending ids,
\* the store and the undo stack unchanged.
C31_OnlyYesAndNo ==
  v.mode = "confirmDelete" =>
    \A key \in ConfirmKeys, order \in MapOrders(v.selected) :
      /\ key \in {"y", "Y"} =>
           /\ Answer(key, order).cmd = DeleteTasksCmd(v.deleteIDs)
           /\ Answer(key, order).v.mode = "normal"
      /\ key \in {"n", "N"} =>
           /\ Answer(key, order).cmd = NoCmd
           /\ Answer(key, order).v.mode = "normal"
           /\ Answer(key, order).v.deleteIDs = <<>>
           /\ Answer(key, order).v.undoStack = v.undoStack
      /\ key \notin {"y", "Y", "n", "N"} => Ignored(key, order)

\* The same with esc among the keys that cancel.
OnlyYesNoAndEsc ==
  v.mode = "confirmDelete" =>
    \A key \in ConfirmKeys, order \in MapOrders(v.selected) :
      /\ key \in {"y", "Y"} =>
           /\ Answer(key, order).cmd = DeleteTasksCmd(v.deleteIDs)
           /\ Answer(key, order).v.mode = "normal"
      /\ key \in {"n", "N", "esc"} =>
           /\ Answer(key, order).cmd = NoCmd
           /\ Answer(key, order).v.mode = "normal"
           /\ Answer(key, order).v.deleteIDs = <<>>
           /\ Answer(key, order).v.undoStack = v.undoStack
      /\ key \notin {"y", "Y", "n", "N", "esc"} => Ignored(key, order)

\* ---------------------------------------------------- the selectors' cursor

\* The keys of a user who opens each selector, moves in it and types into
\* its search.
SelectorKeys ==
  IF ActiveSelectors(v) # {} THEN {"up", "down", "esc", "x", "backspace"}
  ELSE {"m", "t", "b", "M", "T", "P", "down"}

InitSelectors == InitWith({StoreOrder}, 0)

\* The user waits until nothing is in flight.
NextSelectors ==
  \/ \E key \in SelectorKeys : Quiet /\ Press(key)
  \/ \E i \in DOMAIN cmds : RunCmd(i)
  \/ Deliver

SpecSelectors == InitSelectors /\ [][NextSelectors]_vars

\* the number of entries the open selector lists, with the entry "All",
\* "Clear" or "Remove parent" when it is shown
Entries(w) ==
  CASE w.selectingProject -> Len(w.projects)
    [] w.selectingTag -> Len(w.tags)
    [] w.selectingDep -> Len(w.depTasks)
    [] w.selectingProjectFilter ->
         Len(GetFilteredProjects(w)) + (IF w.selectorSearch = <<>> THEN 1 ELSE 0)
    [] w.selectingTagFilter ->
         Len(GetFilteredTags(w)) + (IF w.selectorSearch = <<>> THEN 1 ELSE 0)
    [] w.selectingParent ->
         Len(GetFilteredParentCandidates(w))
           + (IF /\ w.selectorSearch = <<>>
                 /\ FindTask(w.tasks, w.parentTaskID) # NoTask
                 /\ FindTask(w.tasks, w.parentTaskID).ParentID # NoId
                THEN 1 ELSE 0)
    [] OTHER -> 0

\* in the selectors of the set: up from the first entry goes to the last,
\* down from the last goes to the first, and the cursor is on an entry
WrapsIn(selectors) ==
  (ActiveSelectors(v) # {} /\ ActiveSelectors(v) \subseteq selectors
     /\ Entries(v) > 0)
  => /\ v.selectorCursor \in 0..(Entries(v) - 1)
     /\ v.selectorCursor = 0 =>
          RootUpdate(v, "up", <<>>, Now).v.selectorCursor = Entries(v) - 1
     /\ v.selectorCursor = Entries(v) - 1 =>
          RootUpdate(v, "down", <<>>, Now).v.selectorCursor = 0

\* C32: in every selector, moving up from the first entry places the
\* selector cursor on the last entry, moving down from the last entry places
\* it on the first, and the selector cursor indexes an existing entry.
C32_SelectorsWrap == WrapsIn(SelectorFlags)

\* The same for the selectors other than the dependency selector.
OtherSelectorsWrap == WrapsIn(SelectorFlags \ {"selectingDep"})

\* --------------------------------------------- the suspended Normal keymap

\* keys the Normal-mode keymap binds
NormalBindings == {"a", "d", "tab", "p", " ", ":", "/", "ctrl+z"}

\* nothing has been searched for, filtered, expanded, recorded or stored yet
Untouched(w) ==
  /\ w.searchFilter = <<>>
  /\ w.expanded = <<>>
  /\ w.filterProjectID = NoId
  /\ w.filterTagIDs = <<>>
  /\ w.undoStack = <<>>
  /\ db = StoreTree

\* The keys of a user who enters the modes and the selectors once and presses
\* the keys of the Normal-mode keymap there.
SuspendKeys ==
  IF v.mode # "normal" \/ ActiveSelectors(v) # {}
    THEN IF /\ db = StoreTree
            /\ \/ Len(v.input) < MaxInput
               \/ v.mode = "edit" /\ v.input = v.editingOldTask.Title
           THEN NormalBindings \cup {"esc"}
         ELSE {"esc"}
  ELSE IF Untouched(v)
    THEN {"a", "s", "enter", "/", ":", "d", "m", "t", "b", "M", "T", "P",
          " ", "down"}
  ELSE {}

InitSuspend == InitWith({StoreTree}, 0)

\* The user waits until nothing is in flight.
NextSuspend ==
  \/ \E key \in SuspendKeys : Quiet /\ Press(key)
  \/ \E i \in DOMAIN cmds : RunCmd(i)
  \/ Deliver

SpecSuspend == InitSuspend /\ [][NextSuspend]_vars

\* the handler of the mode or of the open selector, applied to the key
ActiveHandler(w, key, order, now) ==
  LET s == [w EXCEPT !.statusMsg = <<>>]
  IN CASE w.mode = "add" -> HandleAddMode(w, key)
       [] w.mode = "addSubtask" -> HandleAddSubtaskMode(w, key)
       [] w.mode = "edit" -> HandleEditMode(w, key)
       [] w.mode = "search" -> HandleSearchMode(w, key, now)
       [] w.mode = "command" -> HandleCommandMode(w, key, order, now)
       [] w.mode = "confirmDelete" -> HandleDeleteConfirm(w, key)
       [] w.selectingProject -> HandleProjectSelector(s, key)
       [] w.selectingTag -> HandleTagSelector(s, key)
       [] w.selectingDep -> HandleDependencySelector(s, key)
       [] w.selectingProjectFilter -> HandleProjectFilterSelector(s, key, now)
       [] w.selectingTagFilter -> HandleTagFilterSelector(s, key, now)
       [] w.selectingParent -> HandleParentSelector(s, key)

\* C33: while the mode is not Normal or a selector is open, a key of the
\* Normal-mode keymap is handled by the handler of the mode or selector and
\* by nothing else, and it changes neither the cursor of the task list, the
\* selection, the expansion set nor the undo and redo stacks.
C33_NormalKeymapSuspended ==
  (v.mode # "normal" \/ ActiveSelectors(v) # {}) =>
    \A key \in NormalBindings, order \in MapOrders(v.selected) :
      LET r == RootUpdate(v, key, order, Now)
      IN /\ r = ActiveHandler(v, key, order, Now)
         /\ v.mode # "search" => r.v.cursor = v.cursor
         /\ r.v.selected = v.selected
         /\ r.v.expanded = v.expanded
         /\ r.v.undoStack = v.undoStack
         /\ r.v.redoStack = v.redoStack

\* C33 happens: p was typed into the search while a task is selected; it
\* went into the query and toggled no status.
C33_Witness ==
  /\ v.mode = "search"
  /\ v.input = <<"p">>
  /\ v.selected # {}
  /\ v.undoStack = <<>>

\* ------------------------------------------------- the Pomodoro and Focus timers

\* internal/ui/views/pomodoro.go and focus.go (src/unnamed/part_007).  Here v
\* holds the two views of the root model, db the time_entries table, cmds
\* the timers and commands returned by the views' Update and not yet due or
\* run, msgs their messages, created the entries inserted (uuid.New()).
\* Durations and times are in seconds; time.Now() is an input of each step,
\* never earlier than a time the view has kept.

\* Timer durations (25, 5 and 15 minutes)
PomodoroWork == 1500
PomodoroShortBreak == 300
PomodoroLongBreak == 900

\* The clock readings a run may see.
MaxClock == 2
Times == 0..MaxClock

\* the pending top-level tasks loadTasks returns, and the task in focus
TimerTasks == <<1, 2>>
FocusTask == 1

NewPomodoroView ==
  [tasks |-> <<>>, taskCursor |-> 0, selectedTask |-> NoId, state |-> "idle",
   duration |-> PomodoroWork, remaining |-> PomodoroWork, startedAt |-> 0,
   pausedAt |-> 0, completedPomodoros |-> 0, currentEntryID |-> NoId,
   statusMsg |-> <<>>]

\* NewFocusView, then SetTask
NewFocusView ==
  [task |-> FocusTask, timerState |-> "idle", timerStart |-> 0,
   timerElapsed |-> 0, timeEntryID |-> NoId, statusMsg |-> <<>>]

TCmd(kind) == [kind |-> kind]
TNone == TCmd("none")
tickCmd == TCmd("pomodoroTick")
focusTickCmd == TCmd("focusTick")

\* what a step of a view yields: the view, the command, the table
TR(w, c, d) == [v |-> w, cmd |-> c, db |-> d]

\* INSERT INTO time_entries
Entry(task, started, pomodoro) ==
  [task_id |-> task, started_at |-> started, is_pomodoro |-> pomodoro,
   ended_at |-> NoTime, duration |-> 0]

\* UPDATE time_entries SET ended_at = ?, duration = ? WHERE id = ?
EndEntry(d, id, now, minutes) ==
  IF id \in DOMAIN d
    THEN [d EXCEPT ![id] = [@ EXCEPT !.ended_at = now, !.duration = minutes]]
    ELSE d

\* startTimer, a method of a PomodoroView value: the receiver it changes is
\* its own copy (.copy); the caller's view is not touched.
startTimer(w, duration, now, d) ==
  LET c == [w EXCEPT !.state = "running", !.duration = duration,
                     !.remaining = duration, !.startedAt = now,
                     !.statusMsg = <<"Focus time started!">>]
  IN IF w.selectedTask # NoId
       THEN [copy |-> [c EXCEPT !.currentEntryID = Len(d) + 1], cmd |-> tickCmd,
             db |-> Append(d, Entry(w.selectedTask, now, TRUE))]
       ELSE [copy |-> c, cmd |-> tickCmd, db |-> d]

\* startBreak, a method of a PomodoroView value
startBreak(w, duration, now) ==
  [copy |-> [w EXCEPT !.state = "break", !.duration = duration,
                      !.remaining = duration, !.startedAt = now,
                      !.statusMsg = IF duration = PomodoroShortBreak
                                      THEN <<"Short break started">>
                                      ELSE <<"Long break started">>],
   cmd |-> tickCmd]

\* recordTimeEntry, a method of a *PomodoroView
recordTimeEntry(w, now, d) ==
  IF w.currentEntryID = NoId THEN TR(w, TNone, d)
  ELSE TR([w EXCEPT !.currentEntryID = NoId], TNone,
          EndEntry(d, w.currentEntryID, now, PomodoroWork \div 60))

\* PomodoroView.Update, case tea.KeyMsg
PomodoroKey(w, key, now, d) ==
  CASE key \in {"j", "down"} ->
         TR(IF w.state = "idle" /\ w.taskCursor < Len(w.tasks) - 1
              THEN [w EXCEPT !.taskCursor = @ + 1] ELSE w, TNone, d)
    [] key \in {"k", "up"} ->
         TR(IF w.state = "idle" /\ w.taskCursor > 0
              THEN [w EXCEPT !.taskCursor = @ - 1] ELSE w, TNone, d)
    [] key = "enter" ->
         TR(IF w.state = "idle" /\ Len(w.tasks) > 0
              THEN [w EXCEPT !.selectedTask = w.tasks[w.taskCursor + 1]]
              ELSE w, TNone, d)
    [] key \in {"s", " "} ->
         CASE w.state = "idle" ->
                LET s == startTimer(w, PomodoroWork, now, d)
                IN TR(w, s.cmd, s.db)
           [] w.state = "running" ->
                TR([w EXCEPT !.state = "paused", !.pausedAt = now,
                             !.statusMsg = <<"Paused">>], TNone, d)
           [] w.state = "paused" ->
                TR([w EXCEPT !.startedAt = @ + (now - w.pausedAt),
                             !.state = "running",
                             !.statusMsg = <<"Resumed">>], tickCmd, d)
           [] OTHER -> TR(w, TNone, d)
    [] key = "r" ->
         TR([w EXCEPT !.state = "idle", !.remaining = PomodoroWork,
                      !.duration = PomodoroWork,
                      !.statusMsg = <<"Timer reset">>], TNone, d)
    [] key = "b" ->
         IF w.state = "idle"
           THEN TR(w, startBreak(w, PomodoroShortBreak, now).cmd, d)
           ELSE TR(w, TNone, d)
    [] key = "B" ->
         IF w.state = "idle"
           THEN TR(w, startBreak(w, PomodoroLongBreak, now).cmd, d)
           ELSE TR(w, TNone, d)
    [] key = "c" ->
         TR([w EXCEPT !.selectedTask = NoId,
                      !.statusMsg = <<"Task cleared">>], TNone, d)
    [] key = "g" -> TR([w EXCEPT !.taskCursor = 0], TNone, d)
    [] key = "G" ->
         TR(IF Len(w.tasks) > 0 THEN [w EXCEPT !.taskCursor = Len(w.tasks) - 1]
            ELSE w, TNone, d)
    [] OTHER -> TR(w, TNone, d)

\* PomodoroView.Update, the messages
PomodoroMsg(w, msg, now, d) ==
  CASE msg.kind = "pomodoroTasksLoaded" ->
         TR([w EXCEPT !.tasks = TimerTasks], TNone, d)
    [] msg.kind = "pomodoroTick" ->
         IF w.state \in {"running", "break"}
           THEN LET remaining == w.duration - (now - w.startedAt)
                IN IF remaining <= 0
                     THEN TR([w EXCEPT !.remaining = 0],
                             TCmd("completeSession"), d)
                     ELSE TR([w EXCEPT !.remaining = remaining], tickCmd, d)
           ELSE TR(w, TNone, d)
    [] msg.kind = "pomodoroComplete" ->
         LET done ==
               IF w.state = "running"
                 THEN LET c == [w EXCEPT !.completedPomodoros = @ + 1,
                                         !.state = "idle",
                                         !.statusMsg = <<"Pomodoro complete! Take a break.">>]
                      IN IF c.selectedTask # NoId
                           THEN recordTimeEntry(c, now, d)
                           ELSE TR(c, TNone, d)
               ELSE IF w.state = "break"
                 THEN TR([w EXCEPT !.state = "idle",
                            !.statusMsg = <<"Break over! Ready for next pomodoro.">>],
                         TNone, d)
               ELSE TR(w, TNone, d)
         IN TR([done.v EXCEPT !.remaining = PomodoroWork,
                              !.duration = PomodoroWork], TNone, done.db)
    [] OTHER -> TR(w, TNone, d)

\* FocusView.startTimer, a method of a FocusView value: as startTimer
focusStartTimer(w, now, d) ==
  LET c == [w EXCEPT !.timerState = "running", !.timerStart = now,
                     !.timerElapsed = 0, !.statusMsg = <<"Timer started">>]
  IN IF w.task # NoId
       THEN [copy |-> [c EXCEPT !.timeEntryID = Len(d) + 1],
             cmd |-> focusTickCmd,
             db |-> Append(d, Entry(w.task, now, FALSE))]
       ELSE [copy |-> c, cmd |-> focusTickCmd, db |-> d]

\* FocusView.stopAndSaveTimer, a method of a FocusView value: the command
\* keeps the duration and the entry id
stopAndSaveTimer(w) ==
  [kind |-> "stopAndSave", duration |-> w.timerElapsed \div 60,
   entryID |-> w.timeEntryID]

\* FocusView.Update, case tea.KeyMsg: the keys of the timer
FocusKey(w, key, now, d) ==
  CASE key \in {"s", " "} ->
         CASE w.timerState = "idle" ->
                LET s == focusStartTimer(w, now, d)
                IN TR(w, s.cmd, s.db)
           [] w.timerState = "running" ->
                TR([w EXCEPT !.timerState = "paused",
                             !.statusMsg = <<"Timer paused">>], TNone, d)
           [] OTHER ->
                TR([w EXCEPT !.timerStart = now - w.timerElapsed,
                             !.timerState = "running",
                             !.statusMsg = <<"Timer resumed">>], focusTickCmd, d)
    [] key = "r" ->
         TR(IF w.timerState # "idle"
              THEN [w EXCEPT !.timerState = "idle", !.timerElapsed = 0,
                             !.statusMsg = <<"Timer reset">>]
              ELSE w, TNone, d)
    [] key = "S" ->
         IF w.timerState # "idle" THEN TR(w, stopAndSaveTimer(w), d)
         ELSE TR(w, TNone, d)
    [] OTHER -> TR(w, TNone, d)

\* FocusView.Update, the messages of the timer
FocusMsg(w, msg, now, d) ==
  CASE msg.kind = "focusTick" ->
         IF w.timerState = "running"
           THEN TR([w EXCEPT !.timerElapsed = now - w.timerStart],
                   focusTickCmd, d)
           ELSE TR(w, TNone, d)
    [] OTHER -> TR(w, TNone, d)

PomodoroKeys == {"j", "k", "enter", "s", " ", "r", "b", "B", "c", "g", "G"}
FocusKeys == {"s", " ", "r", "S"}

\* the kinds of message the Pomodoro view handles (the others are Focus's)
PomodoroKinds == {"pomodoroTasksLoaded", "pomodoroTick", "pomodoroComplete"}

InitTimers ==
  /\ v = [pomodoro |-> NewPomodoroView, focus |-> NewFocusView]
  /\ db = <<>>
  /\ cmds = <<TCmd("pomodoroLoadTasks")>>
  /\ msgs = <<>>
  /\ created = 0
  /\ faults = 0
  /\ ld = Idle
  /\ conn = "free"
  /\ running = TRUE

\* time.Now() as the views can tell it: not before a time they keep
Clock ==
  {now \in Times : /\ now >= v.pomodoro.startedAt
                   /\ now >= v.pomodoro.pausedAt
                   /\ now >= v.focus.timerStart}

\* a step of a view, its command queued
TimerStep(r, pomodoro) ==
  /\ r.cmd # TNone => Len(cmds) + Len(msgs) < MaxInflight
  /\ Len(r.db) > Len(db) => created < MaxNew
  /\ v' = IF pomodoro THEN [v EXCEPT !.pomodoro = r.v]
          ELSE [v EXCEPT !.focus = r.v]
  /\ db' = r.db
  /\ created' = created + (Len(r.db) - Len(db))

\* a key pressed in the Pomodoro view
PomodoroPress(key) ==
  /\ \E now \in Clock :
       LET r == PomodoroKey(v.pomodoro, key, now, db)
       IN /\ TimerStep(r, TRUE)
          /\ cmds' = IF r.cmd = TNone THEN cmds ELSE Append(cmds, r.cmd)
  /\ UNCHANGED <<msgs, faults, ld, conn, running>>

\* a key pressed in the Focus view
FocusPress(key) ==
  /\ \E now \in Clock :
       LET r == FocusKey(v.focus, key, now, db)
       IN /\ TimerStep(r, FALSE)
          /\ cmds' = IF r.cmd = TNone THEN cmds ELSE Append(cmds, r.cmd)
  /\ UNCHANGED <<msgs, faults, ld, conn, running>>

\* the message of a command
TimerMsgOf(c) ==
  CASE c.kind = "pomodoroLoadTasks" -> TCmd("pomodoroTasksLoaded")
    [] c.kind = "completeSession" -> TCmd("pomodoroComplete")
    [] c.kind = "stopAndSave" -> TCmd("taskUpdated")
    [] OTHER -> c

\* a timer falls due, or a command runs: its message is queued
TimerFires(i) ==
  /\ msgs' = Append(msgs, TimerMsgOf(cmds[i]))
  /\ cmds' = [k \in 1..(Len(cmds) - 1) |-> IF k < i THEN cmds[k] ELSE cmds[k + 1]]
  /\ db' = IF cmds[i].kind = "stopAndSave" /\ cmds[i].duration > 0
             THEN EndEntry(db, cmds[i].entryID, 0, cmds[i].duration)
             ELSE db
  /\ UNCHANGED <<v, created, faults, ld, conn, running>>

\* the oldest message is handled by the view it belongs to
TimerDeliver ==
  /\ msgs # <<>>
  /\ \E now \in Clock :
       LET pomodoro == Head(msgs).kind \in PomodoroKinds
           r == IF pomodoro THEN PomodoroMsg(v.pomodoro, Head(msgs), now, db)
                ELSE FocusMsg(v.focus, Head(msgs), now, db)
       IN /\ r.cmd # TNone => Len(cmds) + Len(msgs) - 1 < MaxInflight
          /\ v' = IF pomodoro THEN [v EXCEPT !.pomodoro = r.v]
                  ELSE [v EXCEPT !.focus = r.v]
          /\ db' = r.db
          /\ cmds' = IF r.cmd = TNone THEN cmds ELSE Append(cmds, r.cmd)
  /\ msgs' = Tail(msgs)
  /\ UNCHANGED <<created, faults, ld, conn, running>>

NextTimers ==
  \/ \E key \in PomodoroKeys : PomodoroPress(key)
  \/ \E key \in FocusKeys : FocusPress(key)
  \/ \E i \in DOMAIN cmds : TimerFires(i)
  \/ TimerDeliver

SpecTimers == InitTimers /\ [][NextTimers]_vars

\* ticks of a kind that are armed or sent and not yet handled
Outstanding(kind) ==
  Cardinality({i \in DOMAIN cmds : cmds[i].kind = kind})
    + Cardinality({i \in DOMAIN msgs : msgs[i].kind = kind})

\* C34: for each timer at most one tick is outstanding, armed or sent and
\* not yet handled, and a tick handled while the timer is not running arms
\* no further tick.
C34_OneTickOutstanding ==
  /\ [](Outstanding("pomodoroTick") <= 1 /\ Outstanding("focusTick") <= 1)
  /\ [][(TimerDeliver /\ Head(msgs).kind = "pomodoroTick"
           /\ v.pomodoro.state \notin {"running", "break"}) => cmds' = cmds]_vars
  /\ [][(TimerDeliver /\ Head(msgs).kind = "focusTick"
           /\ v.focus.timerState # "running") => cmds' = cmds]_vars

\* The second half of C34 alone: a tick handled while the timer is not
\* running arms no further tick.
IdleTickArmsNothing ==
  /\ [][(TimerDeliver /\ Head(msgs).kind = "pomodoroTick"
           /\ v.pomodoro.state \notin {"running", "break"}) => cmds' = cmds]_vars
  /\ [][(TimerDeliver /\ Head(msgs).kind = "focusTick"
           /\ v.focus.timerState # "running") => cmds' = cmds]_vars

\* C35: start pressed while the Pomodoro timer is Idle leaves the view
\* Running with the full work duration remaining; a break started from Idle
\* leaves it in Break; start pressed while the Focus timer is Idle leaves it
\* Running.
C35_StartRuns ==
  /\ [][\A key \in {"s", " "} :
          (PomodoroPress(key) /\ v.pomodoro.state = "idle") =>
            /\ v'.pomodoro.state = "running"
            /\ v'.pomodoro.remaining = PomodoroWork]_vars
  /\ [][\A key \in {"b", "B"} :
          (PomodoroPress(key) /\ v.pomodoro.state = "idle") =>
            v'.pomodoro.state = "break"]_vars
  /\ [][\A key \in {"s", " "} :
          (FocusPress(key) /\ v.focus.timerState = "idle") =>
            v'.focus.timerState = "running"]_vars

\* What the views do instead: both timers stay Idle whatever is pressed, and
\* every start arms a tick.
TimersStayIdle ==
  /\ [](v.pomodoro.state = "idle" /\ v.focus.timerState = "idle")
  /\ [][\A key \in {"s", " ", "b", "B"} :
          PomodoroPress(key) => cmds' = Append(cmds, tickCmd)]_vars
  /\ [][\A key \in {"s", " "} :
          FocusPress(key) => cmds' = Append(cmds, focusTickCmd)]_vars

\* ------------------------------------------------------- the cursor's range

\* The keys of a user who moves the cursor, filters, searches, expands,
\* collapses and deletes one task or one family of tasks.
CursorKeys ==
  IF v.selectingProjectFilter THEN {"down", "enter"}
  ELSE IF v.mode = "search" THEN {"x", "enter"}
  ELSE IF v.mode = "confirmDelete" THEN {"y"}
  ELSE {"up", "down", "g", "G", "pgup", "pgdown", "H", "o", "M", "/", "esc"}
       \cup (IF db = StoreMixed THEN {"d"} ELSE {})

InitCursor == InitWith({StoreMixed}, 0)

NextCursor ==
  \/ \E key \in CursorKeys : Quiet /\ Press(key)
  \/ \E i \in DOMAIN cmds : RunCmd(i)
  \/ Deliver

SpecCursor == InitCursor /\ [][NextCursor]_vars

\* C36: in every reachable state the cursor is a position of the visible
\* sequence: 0 when tasks is empty, and 0 <= cursor < len(tasks) otherwise.
C36_CursorInRange ==
  IF v.tasks = <<>> THEN v.cursor = 0
  ELSE v.cursor >= 0 /\ v.cursor < Len(v.tasks)

\* C36 happens: the cursor stands on the last of several rows that a project
\* filter leaves of a list from which a task was deleted.
C36_Witness ==
  /\ db # StoreMixed
  /\ v.filterProjectID # NoId
  /\ Len(v.tasks) > 1
  /\ Len(v.tasks) < Len(FlattenTasks(v, v.allTasks))
  /\ v.cursor = Len(v.tasks) - 1

\* the cursor's other case: the list is loaded and the filters leave no row
NoRowVisible == v.allTasks # <<>> /\ v.tasks = <<>> /\ v.cursor = 0

\* ------------------------------------------- the task a selector works on

\* The keys of a user who filters by tag, then opens the project, tag and
\* dependency selectors on the task under the cursor and chooses in them,
\* and who opens no selector again once the store has changed.
PickKeys ==
  IF v.selectingTagFilter THEN {"down", " ", "esc"}
  ELSE IF v.selectingProject THEN {"down", "enter", "esc"}
  ELSE IF v.selectingTag \/ v.selectingDep THEN {" ", "esc"}
  ELSE IF db = StoreTree THEN {"T", "m", "t", "b", "down"}
  ELSE {}

InitPick == InitWith({StoreTree}, 0)

\* The user waits until nothing is in flight.
NextPick ==
  \/ \E key \in PickKeys : Quiet /\ Press(key)
  \/ \E i \in DOMAIN cmds : RunCmd(i)
  \/ Deliver

SpecPick == InitPick /\ [][NextPick]_vars

\* the selectors that read tasks[cursor] on Enter and Space
Picking(w) == w.selectingProject \/ w.selectingTag \/ w.selectingDep

\* C37: while the project, tag or dependency selector is open the visible
\* sequence is not empty and the cursor indexes a task of it, and from step
\* to step that task is the same one, the task the selector was opened for:
\* Enter and Space read tasks[cursor] in range and of that task.
C37_SelectorTaskStays ==
  /\ [](Picking(v) => v.cursor < Len(v.tasks))
  /\ [][(Picking(v) /\ Picking(v') /\ v.cursor < Len(v.tasks)
           /\ v'.cursor < Len(v'.tasks))
          => CursorTask(v').ID = CursorTask(v).ID]_vars
  /\ [](running)

\* What holds of the selectors: opened on a task, they read the task under
\* the cursor as long as no reload is adopted while they are open.
SelectorTaskStaysUntilReload ==
  /\ [][(~Picking(v) /\ Picking(v')) => v'.cursor < Len(v'.tasks)]_vars
  /\ [][(Picking(v) /\ Picking(v') /\ v.cursor < Len(v.tasks)
           /\ (msgs = <<>> \/ Head(msgs).kind # "tasksLoaded"))
          => /\ v'.cursor < Len(v'.tasks)
             /\ CursorTask(v').ID = CursorTask(v).ID]_vars

\* ------------------------------------------------ what an undo writes back

\* the fields of a task that the action of an undo record did not change
Untouched6(action) ==
  {k \in 1..6 : TaskFields(action.OldTask)[k] = TaskFields(action.NewTask)[k]}

\* C38: the undo of a recorded toggle, priority cycle or title edit changes
\* in the store only the fields the recorded action changed.  The command of
\* the undo writes the fields of the record's old snapshot, so every field
\* the action left alone must hold, at the undo, the value of the snapshot:
\* a field changed since by an action that records nothing would be
\* overwritten.
C38_UndoKeepsOtherFields ==
  /\ [][(Undone /\ Top(v.undoStack).Type \in {"update", "toggleStatus"}
           /\ Top(v.undoStack).TaskID \in DOMAIN db.tasks) =>
          LET action == Top(v.undoStack)
          IN /\ cmds' = <<RestoreTaskStateCmd(action.OldTask)>>
             /\ \A k \in Untouched6(action) :
                  RowFields(db.tasks[action.TaskID])[k]
                    = TaskFields(action.OldTask)[k]]_vars
  /\ [][Runs("restoreTaskState") =>
          RowFields(db'.tasks[cmds[1].task.ID]) = TaskFields(cmds[1].task)]_vars

\* The same for an undo that finds the row as the recorded action left it:
\* with nothing unrecorded in between, the undo changes the action's fields
\* only.
UndoOfLastWriteKeepsOtherFields ==
  [][(Undone /\ Top(v.undoStack).Type \in {"update", "toggleStatus"}
        /\ Top(v.undoStack).TaskID \in DOMAIN db.tasks
        /\ RowFields(db.tasks[Top(v.undoStack).TaskID])
             = TaskFields(Top(v.undoStack).NewTask)) =>
       LET action == Top(v.undoStack)
       IN /\ cmds' = <<RestoreTaskStateCmd(action.OldTask)>>
          /\ \A k \in Untouched6(action) :
               RowFields(db.tasks[action.TaskID])[k]
                 = TaskFields(action.OldTask)[k]]_vars

\* ------------------------------------------------- a delete and its undos

\* The keys of a user who selects tasks, expands, deletes them and undoes.
UndeleteKeys ==
  IF v.mode = "confirmDelete" THEN {"y"}
  ELSE {"down", " ", "o", "d", "ctrl+z"}

InitUndelete == InitWith({StoreTree}, 0)

\* The user waits until nothing is in flight.
NextUndelete ==
  \/ \E key \in UndeleteKeys : Quiet /\ Press(key)
  \/ \E i \in DOMAIN cmds : RunCmd(i)
  \/ Deliver

SpecUndelete == InitUndelete /\ [][NextUndelete]_vars

\* the rows a step removes from the store
Gone == DOMAIN db.tasks \ DOMAIN db'.tasks

\* Among the k records an undo pressed k times would pop there is the delete
\* record of the task id, with the fields of its row.
DeleteAmongTop(id, k) ==
  \E i \in DOMAIN v.undoStack :
    /\ i > Len(v.undoStack) - k
    /\ v.undoStack[i].Type = "delete"
    /\ v.undoStack[i].TaskID = id
    /\ TaskFields(v.undoStack[i].Task) = RowFields(db.tasks[id])

\* C39: a confirmed delete of k targets followed by k undos brings back every
\* row the delete removed, targets and the subtasks removed with them, each
\* with its parent.  Step by step: when the delete runs, every row it
\* removes has its delete record among the top k records of the undo stack;
\* the undo of a delete record issues restoreTask of the record's snapshot;
\* restoreTask inserts the row of the snapshot.
C39_DeleteThenUndos ==
  /\ [][Runs("deleteTasks") =>
          \A id \in Gone : DeleteAmongTop(id, Len(cmds[1].ids))]_vars
  /\ [][(Undone /\ Top(v.undoStack).Type = "delete") =>
          cmds' = <<RestoreTaskCmd(Top(v.undoStack).Task)>>]_vars
  /\ [][Runs("restoreTask") =>
          /\ cmds[1].task.ID \in DOMAIN db'.tasks
          /\ RowFields(db'.tasks[cmds[1].task.ID]) = TaskFields(cmds[1].task)]_vars

\* The same for the targets that are in the list when the user confirms:
\* each of them is recorded; a subtask removed with its parent and a
\* selected task that the list does not show are not.
ListedTargetsRecorded ==
  /\ [][Runs("deleteTasks") =>
          \A id \in Gone :
            (FindTask(v.tasks, id) # NoTask
               /\ \E k \in DOMAIN cmds[1].ids : cmds[1].ids[k] = id)
              => DeleteAmongTop(id, Len(cmds[1].ids))]_vars
  /\ [][(Undone /\ Top(v.undoStack).Type = "delete") =>
          cmds' = <<RestoreTaskCmd(Top(v.undoStack).Task)>>]_vars

\* ------------------------------------------------ records of failed writes

\* The store holds what the action of an undo record wrote: the row of
\* NewTask for an update or a toggle, a row for a create, none for a delete.
Applied(action) ==
  LET id == action.TaskID
  IN CASE action.Type \in {"update", "toggleStatus"} ->
            /\ id \in DOMAIN db.tasks
            /\ RowFields(db.tasks[id]) = TaskFields(action.NewTask)
       [] action.Type = "create" -> id \in DOMAIN db.tasks
       [] action.Type = "delete" -> id \notin DOMAIN db.tasks
       [] OTHER -> TRUE

\* the record is the latest that the undo stack holds of its task
Latest(k) ==
  \A j \in DOMAIN v.undoStack :
    j > k => v.undoStack[j].TaskID # v.undoStack[k].TaskID

\* C40: every record on the undo stack is the record of a mutation that was
\* applied to the store: once the command of a key and its result have been
\* handled, the store holds, for the latest record of each task, what that
\* record's action wrote; a store call that failed has left no record.
C40_RecordsApplied ==
  Quiet => \A k \in DOMAIN v.undoStack : Latest(k) => Applied(v.undoStack[k])

\* The same as long as the store has failed no statement.
RecordsAppliedWithoutFailure ==
  (Quiet /\ faults = 0) =>
    \A k \in DOMAIN v.undoStack : Latest(k) => Applied(v.undoStack[k])

====
